---- MODULE Spec2Model ----
(***************************************************************************)
(* Money For Nothing: the in-memory aggregate (AppContext reducer), the    *)
(* persistence gateway (AsyncStorage / IndexedDB adapters), the monthly    *)
(* reset hook, and the CSV codec with the import handler.                  *)
(*                                                                         *)
(* Strings are sequences of one-character strings, so that the codec's     *)
(* character-level work (quoting, trimming, splitting, number printing     *)
(* and parsing) is computed rather than assumed.  Amounts are integers in  *)
(* cents (the data model's two-decimal amounts).  A month is a count of    *)
(* months since year 0; getCurrentMonth prints it as "YYYY-MM".            *)
(***************************************************************************)
EXTENDS Integers, Sequences, FiniteSets, TLC

VARIABLES
    platform,   \* Platform.OS: "native" (AsyncStorage) or "web" (IndexedDB)
    now,        \* the wall clock, in months since year 0
    mem,        \* the AppData held by the AppProvider's useReducer
    disk,       \* the four persisted keys/stores; <<>> is a missing key, <<v>> a stored v
    rpc,        \* where an in-flight performReset stands
    rcap,       \* the values performReset closed over (state.income, state.bills, state.appState, currentMonth)
    outcome,    \* what checkAndReset or the import last reported; "none" after an edit, a month change, a launch
    imports,    \* how many times the user has run the import
    cpc,        \* a component studied on its own: where it stands (the callers' positions in getStorage)
    cx,         \* ... its input (the AppData handed to generateCSV, the state a render closed over)
    ctext,      \* ... what is in between (the text generateCSV returned, the writes in flight)
    cout        \* ... its result (what parseCSV, an adapter method or a validator returned)

vars == <<platform, now, mem, disk, rpc, rcap, outcome, imports, cpc, cx, ctext, cout>>

appVars == <<platform, now, mem, disk, rpc, rcap, outcome, imports>>

codecVars == <<cpc, cx, ctext, cout>>

----------------------------------------------------------------------------
(* Bounds of the model.                                                    *)

\* how many months the wall clock advances
MaxMonths == 2

\* how many bills and savings accounts the user enters
MaxBills == 1

MaxSavings == 1

\* how many of the income records (from the first) the user edits
MaxEditedIncome == 1

\* how many times the user runs the import
MaxImports == 1

\* characters in a cell value
MaxCell == 3

\* bills where the progress of the bills is looked at
MaxProgressBills == 2

\* income records (the two paychecks and the additional ones)
MaxIncome == 3

\* the binary places to which a quotient is developed before it is rounded,
\* in tens
DivChunks == 8

\* the callers that may be inside getStorage() at once
MaxCallers == 2

\* the bills the Bills modal may hold
MaxEntries == 2

\* the length of the short names handed to the validators
MaxTyped == 2

\* the storage writes that may be in flight at once
MaxPending == 2

(* Program constants.                                                      *)

\* slice(-12) in ADD_SAVINGS_HISTORY_ENTRY and PERFORM_MONTHLY_RESET
HistoryCap == 12

\* validators.ts MAX_NAME_LENGTH
MAX_NAME_LENGTH == 32

\* paycheckNumber of an income that is not one of the two paychecks (undefined)
NoPaycheck == 0

\* the month of the first launch: November 2024
FirstMonth == 24298

\* the rows of the hand-edited history file the user imports
HandHistoryRows == 13

----------------------------------------------------------------------------
(* Characters and strings.                                                 *)

Digits == <<"0", "1", "2", "3", "4", "5", "6", "7", "8", "9">>

IsDigit(c) == \E i \in 1..10 : Digits[i] = c

DigitVal(c) == (CHOOSE i \in 1..10 : Digits[i] = c) - 1

UpperCase == <<"A", "B", "C", "D", "E", "F", "G", "H", "I", "J", "K", "L", "M",
               "N", "O", "P", "Q", "R", "S", "T", "U", "V", "W", "X", "Y", "Z">>

LowerCase == <<"a", "b", "c", "d", "e", "f", "g", "h", "i", "j", "k", "l", "m",
               "n", "o", "p", "q", "r", "s", "t", "u", "v", "w", "x", "y", "z">>

\* String.prototype.toLowerCase, one character
ToLowerChar(c) ==
    IF \E i \in 1..26 : UpperCase[i] = c
    THEN LowerCase[CHOOSE i \in 1..26 : UpperCase[i] = c]
    ELSE c

ToLowerCase(s) == [i \in 1..Len(s) |-> ToLowerChar(s[i])]

IsSpace(c) == c \in {" ", "\t", "\n", "\r"}

\* String.prototype.trim
TrimStart(s) ==
    IF \A i \in 1..Len(s) : IsSpace(s[i]) THEN <<>>
    ELSE SubSeq(s, CHOOSE i \in 1..Len(s) :
                        ~IsSpace(s[i]) /\ \A j \in 1..(i - 1) : IsSpace(s[j]), Len(s))

TrimEnd(s) ==
    IF \A i \in 1..Len(s) : IsSpace(s[i]) THEN <<>>
    ELSE SubSeq(s, 1, CHOOSE i \in 1..Len(s) :
                           ~IsSpace(s[i]) /\ \A j \in (i + 1)..Len(s) : IsSpace(s[j]))

Trim(s) == TrimEnd(TrimStart(s))

StartsWith(s, p) == Len(s) >= Len(p) /\ SubSeq(s, 1, Len(p)) = p

EndsWith(s, p) == Len(s) >= Len(p) /\ SubSeq(s, Len(s) - Len(p) + 1, Len(s)) = p

\* String.prototype.includes
Includes(s, p) ==
    \E i \in 1..(Len(s) - Len(p) + 1) : s[i] = p[1] /\ SubSeq(s, i, i + Len(p) - 1) = p

\* s.indexOf(p, from - 1) + 1: the first position >= from where p occurs, 0 if none
IndexOf(s, p, from) ==
    LET at(i) == s[i] = p[1] /\ SubSeq(s, i, i + Len(p) - 1) = p
        last  == Len(s) - Len(p) + 1
    IN  IF \E i \in from..last : at(i)
        THEN CHOOSE i \in from..last : at(i) /\ \A j \in from..(i - 1) : ~at(j)
        ELSE 0

\* s.replace(/p/g, r) for a literal p: leftmost matches, not overlapping
RECURSIVE ReplaceFrom(_, _, _, _, _)
ReplaceFrom(s, p, r, from, at) ==
    IF at = 0 THEN SubSeq(s, from, Len(s))
    ELSE SubSeq(s, from, at - 1) \o r
         \o ReplaceFrom(s, p, r, at + Len(p), IndexOf(s, p, at + Len(p)))

ReplaceAll(s, p, r) == ReplaceFrom(s, p, r, 1, IndexOf(s, p, 1))

\* s.split(sep) for a one-character sep: the pieces between the separators
Split(s, sep) ==
    LET cuts   == {i \in 1..Len(s) : s[i] = sep}
        n      == Cardinality(cuts)
        cut(k) == IF k = 0 THEN 0
                  ELSE IF k = n + 1 THEN Len(s) + 1
                  ELSE CHOOSE i \in cuts : Cardinality({j \in cuts : j < i}) = k - 1
    IN  [k \in 1..(n + 1) |-> SubSeq(s, cut(k - 1) + 1, cut(k) - 1)]

\* lines.join(sep)
RECURSIVE Join(_, _)
Join(lines, sep) ==
    IF lines = <<>> THEN <<>>
    ELSE IF Len(lines) = 1 THEN lines[1]
    ELSE lines[1] \o sep \o Join(Tail(lines), sep)

\* String(n) for a natural number n
RECURSIVE NatStr(_)
NatStr(n) ==
    IF n < 10 THEN <<Digits[n + 1]>> ELSE Append(NatStr(n \div 10), Digits[(n % 10) + 1])

\* String(x) for a non-negative amount of x cents: "5", "2.5", "0.25"
NumStr(cents) ==
    LET whole == cents \div 100
        frac  == cents % 100
    IN  IF frac = 0 THEN NatStr(whole)
        ELSE IF frac % 10 = 0 THEN NatStr(whole) \o <<".", Digits[(frac \div 10) + 1]>>
        ELSE NatStr(whole) \o <<".", Digits[(frac \div 10) + 1], Digits[(frac % 10) + 1]>>

\* the UTF-16 code unit of a digit or a hyphen (what a month string is made of)
CharCode(c) == IF c = "-" THEN 45 ELSE 48 + DigitVal(c)

\* a faulty comparison under which every later row counts as more recent
LaterRowGreater(a, b) == TRUE

\* a > b for two strings of digits and hyphens (JavaScript's string comparison)
RECURSIVE StrGreater(_, _)
StrGreater(a, b) ==
    IF a = <<>> THEN FALSE
    ELSE IF b = <<>> THEN TRUE
    ELSE IF Head(a) = Head(b) THEN StrGreater(Tail(a), Tail(b))
    ELSE CharCode(Head(a)) > CharCode(Head(b))

\* the run of digits of s that starts at position i, as <<value, next position, count>>
RECURSIVE DigitRun(_, _, _, _)
DigitRun(s, i, acc, n) ==
    IF i <= Len(s) /\ IsDigit(s[i])
    THEN DigitRun(s, i + 1, acc * 10 + DigitVal(s[i]), n + 1)
    ELSE <<acc, i, n>>

NaN == [nan |-> TRUE, v |-> 0]

Num(v) == [nan |-> FALSE, v |-> v]

\* parseFloat(s), in cents, for decimal literals of at most two decimals:
\* leading white space, a sign, digits, a point, digits; NaN without a digit
ParseFloat(s) ==
    LET t     == TrimStart(s)
        neg   == t # <<>> /\ t[1] = "-"
        start == IF t # <<>> /\ t[1] \in {"-", "+"} THEN 2 ELSE 1
        int   == DigitRun(t, start, 0, 0)
        point == int[2] <= Len(t) /\ t[int[2]] = "."
        frac  == IF point THEN DigitRun(t, int[2] + 1, 0, 0) ELSE <<0, int[2], 0>>
        d1    == IF frac[3] >= 1 THEN DigitVal(t[int[2] + 1]) ELSE 0
        d2    == IF frac[3] >= 2 THEN DigitVal(t[int[2] + 2]) ELSE 0
        mag   == int[1] * 100 + d1 * 10 + d2
    IN  IF int[3] + frac[3] = 0 THEN NaN
        ELSE Num(IF neg THEN 0 - mag ELSE mag)

\* parseInt(s, 10)
ParseInt(s) ==
    LET t     == TrimStart(s)
        neg   == t # <<>> /\ t[1] = "-"
        start == IF t # <<>> /\ t[1] \in {"-", "+"} THEN 2 ELSE 1
        int   == DigitRun(t, start, 0, 0)
    IN  IF int[3] = 0 THEN NaN
        ELSE Num(IF neg THEN 0 - int[1] ELSE int[1])

\* x || d for a number x: NaN and 0 are falsy
OrElse(x, d) == IF x.nan \/ x.v = 0 THEN d ELSE x.v

\* String(n).padStart(2, '0')
PadStart2(n) == IF n < 10 THEN <<"0">> \o NatStr(n) ELSE NatStr(n)

\* getCurrentMonth(): `${year}-${month}` of the wall clock
getCurrentMonth(t) == NatStr(t \div 12) \o <<"-">> \o PadStart2((t % 12) + 1)

----------------------------------------------------------------------------
(* The domain model and the reducer (AppContext).                          *)

\* the strings generateVersionString draws from (Math.random)
VersionStrings == {"v0.01682.c"}

\* the amounts the user types, in cents
IncomeAmounts == {500}

BillAmounts == {250}

SavingsAmounts == {300}

BillNames == {<<"R", "e", "n", "t">>}

SavingsNames == {<<"F", "u", "n", "d">>}

\* a faulty first-run state that is dated one month back
initialStateOfLastMonth(t, v) ==
    [income |-> << [id |-> 1, name |-> <<"P", "a", "y", "c", "h", "e", "c", "k", " ", "1">>, defaultAmount |-> 0,
                    currentAmount |-> 0, paycheckNumber |-> 1],
                   [id |-> 2, name |-> <<"P", "a", "y", "c", "h", "e", "c", "k", " ", "2">>, defaultAmount |-> 0,
                    currentAmount |-> 0, paycheckNumber |-> 2] >>,
     bills |-> <<>>,
     savings |-> <<>>,
     appState |-> [lastSessionMonth |-> getCurrentMonth(t - 1),
                   versionString |-> v,
                   hasCompletedSetup |-> FALSE,
                   savingsHistory |-> <<>>]]

createInitialState(t, v) ==
    [income |-> << [id |-> 1, name |-> <<"P", "a", "y", "c", "h", "e", "c", "k", " ", "1">>, defaultAmount |-> 0,
                    currentAmount |-> 0, paycheckNumber |-> 1],
                   [id |-> 2, name |-> <<"P", "a", "y", "c", "h", "e", "c", "k", " ", "2">>, defaultAmount |-> 0,
                    currentAmount |-> 0, paycheckNumber |-> 2] >>,
     bills |-> <<>>,
     savings |-> <<>>,
     appState |-> [lastSessionMonth |-> getCurrentMonth(t),
                   versionString |-> v,
                   hasCompletedSetup |-> FALSE,
                   savingsHistory |-> <<>>]]

\* uuidv4(): an id no record of the lists has
FreshId(lists) ==
    LET used == UNION { {l[i].id : i \in 1..Len(l)} : l \in lists }
    IN  CHOOSE n \in 1..(Cardinality(used) + 1) : n \notin used

\* a faulty cap, array.slice(0, n): it keeps the oldest entries
SliceFirst(s, n) == IF Len(s) <= n THEN s ELSE SubSeq(s, 1, n)

\* array.slice(-n)
SliceLast(s, n) == IF Len(s) <= n THEN s ELSE SubSeq(s, Len(s) - n + 1, Len(s))

\* savings.reduce((sum, sav) => sum + sav.amount, 0)
RECURSIVE SumAmount(_)
SumAmount(list) ==
    IF list = <<>> THEN 0 ELSE list[1].amount + SumAmount(Tail(list))

UPDATE_INCOME(state, id, currentAmount) ==
    [state EXCEPT !.income = [i \in 1..Len(@) |->
        IF @[i].id = id THEN [@[i] EXCEPT !.currentAmount = currentAmount] ELSE @[i]]]

UPDATE_INCOME_DEFAULT(state, id, defaultAmount) ==
    [state EXCEPT !.income = [i \in 1..Len(@) |->
        IF @[i].id = id THEN [@[i] EXCEPT !.defaultAmount = defaultAmount] ELSE @[i]]]

ADD_BILL(state, bill) == [state EXCEPT !.bills = Append(@, bill)]

TOGGLE_BILL_PAID(state, id) ==
    [state EXCEPT !.bills = [i \in 1..Len(@) |->
        IF @[i].id = id THEN [@[i] EXCEPT !.paid = ~@] ELSE @[i]]]

DELETE_BILL(state, id) ==
    [state EXCEPT !.bills = SelectSeq(@, LAMBDA b : b.id # id)]

ADD_SAVINGS(state, sav) == [state EXCEPT !.savings = Append(@, sav)]

DELETE_SAVINGS(state, id) ==
    [state EXCEPT !.savings = SelectSeq(@, LAMBDA s : s.id # id)]

SET_SETUP_COMPLETED(state, flag) ==
    [state EXCEPT !.appState.hasCompletedSetup = flag]

ADD_SAVINGS_HISTORY_ENTRY(state, entry) ==
    [state EXCEPT !.appState.savingsHistory = SliceLast(Append(@, entry), HistoryCap)]

IMPORT_DATA(state, payload) == payload

\* faulty resets, each missing one effect of PERFORM_MONTHLY_RESET: the paid
\* flags stay, the entry is tagged with the new month, the session month stays
ResetKeepingPaid(state, t) ==
    LET historyEntry == [month |-> state.appState.lastSessionMonth,
                         total |-> SumAmount(state.savings)]
    IN  [state EXCEPT
            !.income = [i \in 1..Len(@) |->
                           [@[i] EXCEPT !.currentAmount = state.income[i].defaultAmount]],
            !.appState = [@ EXCEPT !.lastSessionMonth = getCurrentMonth(t),
                                   !.savingsHistory = SliceLast(Append(@, historyEntry),
                                                                HistoryCap)]]

ResetTaggingNewMonth(state, t) ==
    LET historyEntry == [month |-> getCurrentMonth(t), total |-> SumAmount(state.savings)]
    IN  [state EXCEPT
            !.income = [i \in 1..Len(@) |->
                           [@[i] EXCEPT !.currentAmount = state.income[i].defaultAmount]],
            !.bills = [i \in 1..Len(@) |-> [@[i] EXCEPT !.paid = FALSE]],
            !.appState = [@ EXCEPT !.lastSessionMonth = getCurrentMonth(t),
                                   !.savingsHistory = SliceLast(Append(@, historyEntry),
                                                                HistoryCap)]]

ResetKeepingSessionMonth(state, t) ==
    LET historyEntry == [month |-> state.appState.lastSessionMonth,
                         total |-> SumAmount(state.savings)]
    IN  [state EXCEPT
            !.income = [i \in 1..Len(@) |->
                           [@[i] EXCEPT !.currentAmount = state.income[i].defaultAmount]],
            !.bills = [i \in 1..Len(@) |-> [@[i] EXCEPT !.paid = FALSE]],
            !.appState = [@ EXCEPT !.savingsHistory = SliceLast(Append(@, historyEntry),
                                                                HistoryCap)]]

\* a faulty reset that also empties the savings accounts
ResetSweepingSavings(state, t) ==
    LET historyEntry == [month |-> state.appState.lastSessionMonth,
                         total |-> SumAmount(state.savings)]
    IN  [state EXCEPT
            !.income = [i \in 1..Len(@) |->
                           [@[i] EXCEPT !.currentAmount = state.income[i].defaultAmount]],
            !.bills = [i \in 1..Len(@) |-> [@[i] EXCEPT !.paid = FALSE]],
            !.savings = [i \in 1..Len(@) |-> [@[i] EXCEPT !.amount = 0]],
            !.appState = [@ EXCEPT !.lastSessionMonth = getCurrentMonth(t),
                                   !.savingsHistory = SliceLast(Append(@, historyEntry),
                                                                HistoryCap)]]

PERFORM_MONTHLY_RESET(state, t) ==
    LET savingsTotal   == SumAmount(state.savings)
        historyEntry   == [month |-> state.appState.lastSessionMonth, total |-> savingsTotal]
        updatedHistory == SliceLast(Append(state.appState.savingsHistory, historyEntry),
                                    HistoryCap)
    IN  [state EXCEPT
            !.income = [i \in 1..Len(@) |->
                           [@[i] EXCEPT !.currentAmount = state.income[i].defaultAmount]],
            !.bills = [i \in 1..Len(@) |-> [@[i] EXCEPT !.paid = FALSE]],
            !.appState = [@ EXCEPT !.lastSessionMonth = getCurrentMonth(t),
                                   !.savingsHistory = updatedHistory]]

checkNeedsMonthlyReset(state, t) ==
    state.appState.lastSessionMonth # getCurrentMonth(t)

----------------------------------------------------------------------------
(* The persistence gateway.  A key holds <<>> (nothing stored) or <<v>>.    *)

EmptyDisk == [income |-> <<>>, bills |-> <<>>, savings |-> <<>>, appState |-> <<>>]

saveIncome(d, income) == [d EXCEPT !.income = <<income>>]

saveBills(d, bills) == [d EXCEPT !.bills = <<bills>>]

saveSavings(d, savings) == [d EXCEPT !.savings = <<savings>>]

saveAppState(d, appState) == [d EXCEPT !.appState = <<appState>>]

saveAllData(d, data) ==
    [income |-> <<data.income>>, bills |-> <<data.bills>>,
     savings |-> <<data.savings>>, appState |-> <<data.appState>>]

\* db.getAll(store): the records in key (id) order
RECURSIVE SortById(_)
SortById(list) ==
    IF list = <<>> THEN <<>>
    ELSE LET m == CHOOSE i \in 1..Len(list) : \A j \in 1..Len(list) : list[i].id <= list[j].id
         IN  <<list[m]>> \o SortById(SubSeq(list, 1, m - 1) \o SubSeq(list, m + 1, Len(list)))

StoreOf(cell) == IF cell = <<>> THEN <<>> ELSE SortById(cell[1])

\* the IndexedDB adapter's cleanAppState: savingsHistory is not copied (the reducer
\* and the codec read a missing savingsHistory as the empty list)
cleanAppState(a) == [a EXCEPT !.savingsHistory = <<>>]

\* getAppState(): <<>> is null
getAppState(p, d) ==
    IF d.appState = <<>> THEN <<>>
    ELSE IF p = "web" THEN <<cleanAppState(d.appState[1])>>
    ELSE d.appState

\* loadAllData(): <<>> is null (first launch)
loadAllData(p, d) ==
    IF p = "web"
    THEN IF d.appState = <<>> \/ StoreOf(d.income) = <<>> THEN <<>>
         ELSE << [income |-> StoreOf(d.income), bills |-> StoreOf(d.bills),
                  savings |-> StoreOf(d.savings),
                  appState |-> cleanAppState(d.appState[1])] >>
    ELSE IF d.income = <<>> \/ d.appState = <<>> THEN <<>>
         ELSE << [income |-> d.income[1],
                  bills |-> IF d.bills = <<>> THEN <<>> ELSE d.bills[1],
                  savings |-> IF d.savings = <<>> THEN <<>> ELSE d.savings[1],
                  appState |-> d.appState[1]] >>

----------------------------------------------------------------------------
(* The CSV codec (utils/csv.ts) and formatMonth (utils/formatters.ts).     *)

MonthNames == << <<"J", "a", "n", "u", "a", "r", "y">>, <<"F", "e", "b", "r", "u", "a", "r", "y">>, <<"M", "a", "r", "c", "h">>, <<"A", "p", "r", "i", "l">>, <<"M", "a", "y">>, <<"J", "u", "n", "e">>,
                 <<"J", "u", "l", "y">>, <<"A", "u", "g", "u", "s", "t">>, <<"S", "e", "p", "t", "e", "m", "b", "e", "r">>, <<"O", "c", "t", "o", "b", "e", "r">>, <<"N", "o", "v", "e", "m", "b", "e", "r">>,
                 <<"D", "e", "c", "e", "m", "b", "e", "r">> >>

\* formatMonthYear("YYYY-MM"): new Date(year, month - 1) printed as "November 2024"
\* (a month outside 1..12 carries into the year, as Date does)
formatMonth(yearMonth) ==
    LET parts == Split(yearMonth, "-")
        year  == ParseInt(parts[1]).v
        month == IF Len(parts) >= 2 THEN ParseInt(parts[2]).v ELSE 1
        y     == year + ((month - 1) \div 12)
        m     == (month - 1) % 12
    IN  MonthNames[m + 1] \o <<" ">> \o NatStr(y)

Quote == "\""

FormulaChars == {"=", "+", "-", "@"}

\* sanitizeCSVValue(value), given String(value)
sanitizeCSVValue(stringValue) ==
    LET escaped == ReplaceAll(stringValue, <<Quote>>, <<Quote, Quote>>)
    IN  IF escaped # <<>> /\ escaped[1] \in FormulaChars
        THEN <<Quote, "'">> \o escaped \o <<Quote>>
        ELSE IF \E i \in 1..Len(escaped) : escaped[i] \in {",", Quote, "\n", "\r"}
        THEN <<Quote>> \o escaped \o <<Quote>>
        ELSE escaped

\* String(inc.paycheckNumber ?? '')
PaycheckStr(n) == IF n = NoPaycheck THEN <<>> ELSE NatStr(n)

incomeRow(inc) ==
    Join(<< sanitizeCSVValue(inc.name),
            sanitizeCSVValue(NumStr(inc.defaultAmount)),
            sanitizeCSVValue(NumStr(inc.currentAmount)),
            sanitizeCSVValue(PaycheckStr(inc.paycheckNumber)) >>, <<",">>)

billRow(bill) ==
    Join(<< sanitizeCSVValue(bill.name),
            sanitizeCSVValue(NumStr(bill.amount)),
            sanitizeCSVValue(IF bill.paid THEN <<"Y", "e", "s">> ELSE <<"N", "o">>) >>, <<",">>)

savingsRow(sav) ==
    Join(<< sanitizeCSVValue(sav.name), sanitizeCSVValue(NumStr(sav.amount)) >>, <<",">>)

historyRow(entry) ==
    Join(<< sanitizeCSVValue(entry.month), sanitizeCSVValue(NumStr(entry.total)) >>, <<",">>)

generateCSV(data) ==
    LET header  == << <<"M", "o", "n", "e", "y", " ", "F", "o", "r", " ", "N", "o", "t", "h", "i", "n", "g", " ", "E", "x", "p", "o", "r", "t", " ", "-", " ">> \o formatMonth(data.appState.lastSessionMonth),
                      <<>> >>
        income  == << <<"-", "-", "-", " ", "I", "N", "C", "O", "M", "E", " ", "-", "-", "-">>, <<"N", "a", "m", "e", ",", "D", "e", "f", "a", "u", "l", "t", " ", "A", "m", "o", "u", "n", "t", ",", "C", "u", "r", "r", "e", "n", "t", " ", "A", "m", "o", "u", "n", "t", ",", "P", "a", "y", "c", "h", "e", "c", "k", " ", "N", "u", "m", "b", "e", "r">> >>
                   \o [i \in 1..Len(data.income) |-> incomeRow(data.income[i])] \o << <<>> >>
        bills   == << <<"-", "-", "-", " ", "B", "I", "L", "L", "S", " ", "-", "-", "-">>, <<"N", "a", "m", "e", ",", "A", "m", "o", "u", "n", "t", ",", "P", "a", "i", "d">> >>
                   \o [i \in 1..Len(data.bills) |-> billRow(data.bills[i])] \o << <<>> >>
        savings == << <<"-", "-", "-", " ", "S", "A", "V", "I", "N", "G", "S", " ", "-", "-", "-">>, <<"N", "a", "m", "e", ",", "A", "m", "o", "u", "n", "t">> >>
                   \o [i \in 1..Len(data.savings) |-> savingsRow(data.savings[i])] \o << <<>> >>
        history == IF Len(data.appState.savingsHistory) > 0
                   THEN << <<"-", "-", "-", " ", "S", "A", "V", "I", "N", "G", "S", " ", "H", "I", "S", "T", "O", "R", "Y", " ", "-", "-", "-">>, <<"M", "o", "n", "t", "h", ",", "T", "o", "t", "a", "l">> >>
                        \o [i \in 1..Len(data.appState.savingsHistory) |->
                               historyRow(data.appState.savingsHistory[i])]
                   ELSE <<>>
    IN  Join(header \o income \o bills \o savings \o history, <<"\n">>)

parseCSVValue(value) ==
    LET trimmed  == Trim(value)
        unquoted == IF StartsWith(trimmed, <<Quote>>) /\ EndsWith(trimmed, <<Quote>>)
                    THEN SubSeq(trimmed, 2, Len(trimmed) - 1) ELSE trimmed
        unescaped == ReplaceAll(unquoted, <<Quote, Quote>>, <<Quote>>)
    IN  IF StartsWith(unescaped, <<"'">>) THEN Tail(unescaped) ELSE unescaped

\* parseCSVLine's variables before the first character; skip: the loop's
\* extra i++ has already consumed the next character
scanStart == [values |-> <<>>, current |-> <<>>, inQuotes |-> FALSE, skip |-> FALSE]

\* the body of parseCSVLine's loop for the character at position i
scanChar(st, line, i) ==
    IF st.skip THEN [st EXCEPT !.skip = FALSE]
    ELSE IF line[i] = Quote
    THEN IF st.inQuotes /\ i + 1 <= Len(line) /\ line[i + 1] = Quote
         THEN [st EXCEPT !.current = Append(@, Quote), !.skip = TRUE]
         ELSE [st EXCEPT !.current = Append(@, Quote), !.inQuotes = ~@]
    ELSE IF line[i] = "," /\ ~st.inQuotes
    THEN [st EXCEPT !.values = Append(@, parseCSVValue(st.current)), !.current = <<>>]
    ELSE [st EXCEPT !.current = Append(@, line[i])]

RECURSIVE scanLine(_, _)
scanLine(line, n) ==
    IF n = 0 THEN scanStart ELSE scanChar(scanLine(line, n - 1), line, n)

finishLine(st) == Append(st.values, parseCSVValue(st.current))

parseCSVLine(line) == finishLine(scanLine(line, Len(line)))

\* /^\d{4}-\d{2}$/.test(month)
IsMonth(month) ==
    /\ Len(month) = 7
    /\ \A i \in {1, 2, 3, 4, 6, 7} : IsDigit(month[i])
    /\ month[5] = "-"

\* the parser's variables before the first line
parseStart ==
    [currentSection |-> "", headerSkipped |-> FALSE, income |-> <<>>, bills |-> <<>>,
     savings |-> <<>>, savingsHistory |-> <<>>, lastSessionMonth |-> <<>>]

\* the section a section-header line opens ("" when it names none)
sectionOf(lineLower) ==
    IF Includes(lineLower, <<"s", "a", "v", "i", "n", "g", "s", " ", "h", "i", "s", "t", "o", "r", "y">>) THEN "savingsHistory"
    ELSE IF Includes(lineLower, <<"i", "n", "c", "o", "m", "e">>) THEN "income"
    ELSE IF Includes(lineLower, <<"b", "i", "l", "l", "s">>) THEN "bills"
    ELSE IF Includes(lineLower, <<"s", "a", "v", "i", "n", "g", "s">>) THEN "savings"
    ELSE IF Includes(lineLower, <<"s", "u", "m", "m", "a", "r", "y">>) THEN "summary"
    ELSE ""

\* the header-row test of parseCSV
looksLikeHeader(section, lineLower) ==
    \/ StartsWith(lineLower, <<"n", "a", "m", "e">>)
    \/ StartsWith(lineLower, <<"m", "o", "n", "t", "h">>)
    \/ StartsWith(lineLower, <<"t", "o", "t", "a", "l", " ">>)
    \/ section = "income" /\ Includes(lineLower, <<"d", "e", "f", "a", "u", "l", "t">>) /\ Includes(lineLower, <<"a", "m", "o", "u", "n", "t">>)
    \/ section = "bills" /\ Includes(lineLower, <<"p", "a", "i", "d">>)

\* the switch (currentSection) of parseCSV for one data row
parseRow(p, values) ==
    LET has2 == Len(values) >= 2 /\ values[1] # <<>>
    IN  CASE p.currentSection = "income" /\ has2 ->
               LET parsed      == IF Len(values) >= 4 /\ values[4] # <<>>
                                  THEN ParseInt(values[4]) ELSE NaN
                   defaultAmt  == OrElse(ParseFloat(values[2]), 0)
                   currentAmt  == IF Len(values) >= 3
                                  THEN OrElse(ParseFloat(values[3]), defaultAmt)
                                  ELSE defaultAmt
               IN  [p EXCEPT !.income = Append(@,
                       [id |-> Len(@) + 1, name |-> values[1],
                        defaultAmount |-> defaultAmt, currentAmount |-> currentAmt,
                        paycheckNumber |-> IF ~parsed.nan /\ parsed.v \in {1, 2}
                                           THEN parsed.v ELSE NoPaycheck])]
          [] p.currentSection = "bills" /\ has2 ->
               LET paidValue == IF Len(values) >= 3 THEN ToLowerCase(values[3]) ELSE <<>>
               IN  [p EXCEPT !.bills = Append(@,
                       [id |-> Len(@) + 1, name |-> values[1],
                        amount |-> OrElse(ParseFloat(values[2]), 0),
                        paid |-> paidValue \in {<<"y", "e", "s">>, <<"t", "r", "u", "e">>, <<"1">>, <<"x">>}])]
          [] p.currentSection = "savings" /\ has2 ->
               [p EXCEPT !.savings = Append(@,
                       [id |-> Len(@) + 1, name |-> values[1],
                        amount |-> OrElse(ParseFloat(values[2]), 0)])]
          [] p.currentSection = "savingsHistory" /\ Len(values) >= 2 /\ IsMonth(values[1]) ->
               [p EXCEPT !.savingsHistory = Append(@,
                       [month |-> values[1], total |-> OrElse(ParseFloat(values[2]), 0)]),
                         !.lastSessionMonth =
                            IF @ = <<>> \/ StrGreater(values[1], @) THEN values[1] ELSE @]
          [] OTHER -> p

\* the body of parseCSV's loop for one (trimmed) line
parseLine(p, line) ==
    LET lineLower       == ToLowerCase(line)
        isSectionHeader == Includes(line, <<"=", "=", "=">>) \/ Includes(line, <<"-", "-", "-">>)
        values          == parseCSVLine(line)
    IN  IF line = <<>> THEN p
        ELSE IF isSectionHeader /\ sectionOf(lineLower) # ""
        THEN [p EXCEPT !.currentSection = sectionOf(lineLower), !.headerSkipped = FALSE]
        ELSE IF ~isSectionHeader /\ (\/ Includes(lineLower, <<"m", "o", "n", "e", "y", " ", "f", "o", "r", " ", "n", "o", "t", "h", "i", "n", "g">>)
                                     \/ Includes(lineLower, <<"e", "x", "p", "o", "r", "t">>))
        THEN p
        ELSE IF ~p.headerSkipped /\ p.currentSection # ""
                /\ looksLikeHeader(p.currentSection, lineLower)
        THEN [p EXCEPT !.headerSkipped = TRUE]
        ELSE IF Len(values) = 1 /\ values[1] = <<>> THEN p
        ELSE parseRow(p, values)

\* parseCSV's loop from line i on; q is the parser's variables after line i
RECURSIVE parseLines(_, _, _)
parseLines(p, lines, i) ==
    IF i > Len(lines) THEN p
    ELSE CHOOSE r \in {parseLines(q, lines, i + 1) : q \in {parseLine(p, Trim(lines[i]))}} : TRUE

linesOf(normalizedContent) == Split(normalizedContent, "\n")

parseAll(lines) == parseLines(parseStart, lines, 1)

\* the AppData parseCSV builds from what the loop collected
parsedData(p, t, v) ==
    [income |-> IF p.income = <<>> THEN createInitialState(t, v).income ELSE p.income,
     bills |-> p.bills,
     savings |-> p.savings,
     appState |-> [lastSessionMonth |-> IF p.lastSessionMonth = <<>>
                                        THEN getCurrentMonth(t)
                                        ELSE p.lastSessionMonth,
                   versionString |-> v,
                   hasCompletedSetup |-> TRUE,
                   savingsHistory |-> p.savingsHistory]]

\* parseCSV(csvContent) at wall-clock month t, with the version string v it draws.
\* <<data>> is a result; nothing in the body throws, so null is not returned.
parseCSV(csvContent, t, v) ==
    LET normalizedContent == ReplaceAll(ReplaceAll(csvContent, <<"\r", "\n">>, <<"\n">>),
                                        <<"\r">>, <<"\n">>)
    IN  << parsedData(parseAll(linesOf(normalizedContent)), t, v) >>
----------------------------------------------------------------------------
(* The application: launch, the hooks' operations, the monthly reset.      *)

NoCapture == [income |-> <<>>, bills |-> <<>>, appState |-> <<>>, currentMonth |-> <<>>]

\* the income records the user edits
EditedIncome == IF Len(mem.income) < MaxEditedIncome THEN Len(mem.income) ELSE MaxEditedIncome

Init ==
    /\ platform \in {"native", "web"}
    /\ now = FirstMonth
    /\ \E v \in VersionStrings : mem = createInitialState(FirstMonth, v)
    /\ disk = EmptyDisk
    /\ rpc = "idle"
    /\ rcap = NoCapture
    /\ outcome = "none"
    /\ imports = 0
    /\ cpc = "off"
    /\ cx = <<>>
    /\ ctext = <<>>
    /\ cout = <<>>

\* a storage write of a hook: it lands
Write(written) == disk' = written

\* a user operation: the handlers run one at a time (no handler starts while
\* performReset is between its writes)
UserStep == /\ rpc = "idle"
            /\ outcome' = "none"
            /\ UNCHANGED <<platform, now, rpc, rcap, imports, codecVars>>

\* the wall clock reaches the next month
Tick ==
    /\ now < FirstMonth + MaxMonths
    /\ now' = now + 1
    /\ outcome' = "none"
    /\ UNCHANGED <<platform, mem, disk, rpc, rcap, imports, codecVars>>

\* the app is closed (at any point, also during a reset) and started again:
\* App.initialize loads the data, AppProvider starts from it or from initialState
Relaunch ==
    /\ \E v \in VersionStrings :
          LET data == loadAllData(platform, disk)
          IN  mem' = IF data = <<>> THEN createInitialState(now, v) ELSE data[1]
    /\ rpc' = "idle"
    /\ rcap' = NoCapture
    /\ outcome' = "none"
    /\ UNCHANGED <<platform, now, disk, imports, codecVars>>

\* SetupWizard.handleComplete
CompleteSetup ==
    /\ ~mem.appState.hasCompletedSetup
    /\ LET appState == getAppState(platform, disk)
       IN  /\ mem' = SET_SETUP_COMPLETED(mem, TRUE)
           /\ IF appState = <<>>
              THEN UNCHANGED disk
              ELSE Write(saveAppState(disk, [appState[1] EXCEPT !.hasCompletedSetup = TRUE]))
    /\ UserStep

\* useIncome.updateDefaultAmount
UpdateDefaultAmount ==
    \E i \in 1..EditedIncome, amount \in IncomeAmounts :
       LET id == mem.income[i].id
           updatedIncome == [j \in 1..Len(mem.income) |->
               IF mem.income[j].id = id
               THEN [mem.income[j] EXCEPT !.defaultAmount = amount] ELSE mem.income[j]]
       IN  /\ mem.income[i].defaultAmount # amount
           /\ mem' = UPDATE_INCOME_DEFAULT(mem, id, amount)
           /\ Write(saveIncome(disk, updatedIncome))
           /\ UserStep

\* useIncome.updateCurrentAmount
UpdateCurrentAmount ==
    \E i \in 1..EditedIncome, amount \in IncomeAmounts :
       LET id == mem.income[i].id
           updatedIncome == [j \in 1..Len(mem.income) |->
               IF mem.income[j].id = id
               THEN [mem.income[j] EXCEPT !.currentAmount = amount] ELSE mem.income[j]]
       IN  /\ mem.income[i].currentAmount # amount
           /\ mem' = UPDATE_INCOME(mem, id, amount)
           /\ Write(saveIncome(disk, updatedIncome))
           /\ UserStep

\* useBills.addBill, for a list of fewer than max bills
AddBillFrom(amounts, max) ==
    \E name \in BillNames, amount \in amounts :
       LET newBill == [id |-> FreshId({mem.bills, StoreOf(disk.bills)}), name |-> name,
                       amount |-> amount, paid |-> FALSE]
       IN  /\ Len(mem.bills) < max
           /\ mem' = ADD_BILL(mem, newBill)
           /\ Write(saveBills(disk, Append(mem.bills, newBill)))
           /\ UserStep

AddBill == AddBillFrom(BillAmounts, MaxBills)

\* useBills.togglePaid for the i-th bill
TogglePaidOf(i) ==
    LET id == mem.bills[i].id
        updatedBills == [j \in 1..Len(mem.bills) |->
            IF mem.bills[j].id = id
            THEN [mem.bills[j] EXCEPT !.paid = ~@] ELSE mem.bills[j]]
    IN  /\ mem' = TOGGLE_BILL_PAID(mem, id)
        /\ Write(saveBills(disk, updatedBills))
        /\ UserStep

TogglePaid == \E i \in 1..Len(mem.bills) : TogglePaidOf(i)

\* useBills.deleteBill
DeleteBill ==
    \E i \in 1..Len(mem.bills) :
       LET id == mem.bills[i].id
           updatedBills == SelectSeq(mem.bills, LAMBDA b : b.id # id)
       IN  /\ mem' = DELETE_BILL(mem, id)
           /\ Write(saveBills(disk, updatedBills))
           /\ UserStep

\* useSavings.addSavings
AddSavings ==
    \E name \in SavingsNames, amount \in SavingsAmounts :
       LET newSavings == [id |-> FreshId({mem.savings, StoreOf(disk.savings)}),
                          name |-> name, amount |-> amount]
       IN  /\ Len(mem.savings) < MaxSavings
           /\ mem' = ADD_SAVINGS(mem, newSavings)
           /\ Write(saveSavings(disk, Append(mem.savings, newSavings)))
           /\ UserStep

\* useSavings.deleteSavings
DeleteSavings ==
    \E i \in 1..Len(mem.savings) :
       LET id == mem.savings[i].id
           updatedSavings == SelectSeq(mem.savings, LAMBDA s : s.id # id)
       IN  /\ mem' = DELETE_SAVINGS(mem, id)
           /\ Write(saveSavings(disk, updatedSavings))
           /\ UserStep

\* HomeScreen's effect: useMonthlyReset.checkAndReset.  When a reset is due,
\* performReset dispatches PERFORM_MONTHLY_RESET and goes on to its three writes
\* with the state it closed over.
CheckAndReset ==
    /\ mem.appState.hasCompletedSetup
    /\ IF checkNeedsMonthlyReset(mem, now)
       THEN /\ rpc = "idle"
            /\ mem' = PERFORM_MONTHLY_RESET(mem, now)
            /\ rcap' = [income |-> mem.income, bills |-> mem.bills,
                        appState |-> mem.appState, currentMonth |-> getCurrentMonth(now)]
            /\ rpc' = "saveIncome"
            /\ outcome' = "reset"
       ELSE /\ outcome' = "noReset"
            /\ UNCHANGED <<mem, rcap, rpc>>
    /\ UNCHANGED <<platform, now, disk, imports, codecVars>>

\* one write of performReset: it lands and performReset goes on (after the last
\* one checkAndReset returns true), or it throws and the rest of performReset
\* does not run.  The outcome is reported unless the month has changed since.
ResetStep(ok, next, written) ==
    /\ disk' = IF ok THEN written ELSE disk
    /\ rpc' = IF ok THEN next ELSE "idle"
    /\ rcap' = IF ok /\ next # "idle" THEN rcap ELSE NoCapture
    /\ outcome' = IF outcome = "none" THEN "none"
                  ELSE IF ~ok THEN "resetFailed"
                  ELSE IF next = "idle" THEN "resetDone" ELSE outcome
    /\ UNCHANGED <<platform, now, mem, imports, codecVars>>

\* performReset: await storage.saveIncome(updatedIncome)
ResetSaveIncome ==
    /\ rpc = "saveIncome"
    /\ \E ok \in BOOLEAN :
          LET updatedIncome == [i \in 1..Len(rcap.income) |->
                  [rcap.income[i] EXCEPT !.currentAmount = rcap.income[i].defaultAmount]]
          IN  ResetStep(ok, "saveBills", saveIncome(disk, updatedIncome))

\* performReset: await storage.saveBills(updatedBills)
ResetSaveBills ==
    /\ rpc = "saveBills"
    /\ \E ok \in BOOLEAN :
          LET updatedBills == [i \in 1..Len(rcap.bills) |->
                  [rcap.bills[i] EXCEPT !.paid = FALSE]]
          IN  ResetStep(ok, "saveAppState", saveBills(disk, updatedBills))

\* performReset: await storage.saveAppState(updatedAppState)
ResetSaveAppState ==
    /\ rpc = "saveAppState"
    /\ \E ok \in BOOLEAN :
          LET updatedAppState == [rcap.appState EXCEPT !.lastSessionMonth = rcap.currentMonth]
          IN  ResetStep(ok, "idle", saveAppState(disk, updatedAppState))

----------------------------------------------------------------------------
(* Import (SettingsScreen.handleImportCSV, selectAndParseCSV).             *)

\* a file the user hand-edited: a SAVINGS HISTORY section of HandHistoryRows
\* months, the last of them the month before the first launch
HistoryFile ==
    Join(<< <<"=", "=", "=", " ", "S", "A", "V", "I", "N", "G", "S", " ", "H", "I", "S", "T", "O", "R", "Y", " ", "=", "=", "=">>, <<"M", "o", "n", "t", "h", ",", "T", "o", "t", "a", "l">> >>
         \o [i \in 1..HandHistoryRows |->
                getCurrentMonth(FirstMonth - HandHistoryRows - 1 + i) \o <<",", "1">>],
         <<"\n">>)

\* what the file picker hands back: the user cancels, or picks a file, whose
\* name ends in .csv or not and whose content can be read or not
Cancelled == [kind |-> "cancel", csv |-> FALSE, content |-> <<>>]

Unreadable == [kind |-> "unreadable", csv |-> TRUE, content |-> <<>>]

File(csv, content) == [kind |-> "file", csv |-> csv, content |-> content]

\* the picks that carry no file written by another hand
OwnPicks(state) ==
    { Cancelled, Unreadable, File(FALSE, <<"n", "o", "t", "e", "s">>), File(TRUE, <<>>),
      File(TRUE, generateCSV(state)) }

AllPicks(state) == OwnPicks(state) \cup { File(TRUE, HistoryFile) }

\* selectAndParseCSV(): the ImportResult; data is <<>> (null) or <<AppData>>
selectAndParseCSV(p, pick, t, v) ==
    LET cancelled == [success |-> FALSE, data |-> <<>>, cancelled |-> TRUE, error |-> FALSE]
        failed    == [success |-> FALSE, data |-> <<>>, cancelled |-> FALSE, error |-> TRUE]
        data      == parseCSV(pick.content, t, v)
        parsed    == IF data # <<>>
                     THEN [success |-> TRUE, data |-> data, cancelled |-> FALSE, error |-> FALSE]
                     ELSE failed
    IN  IF pick.kind = "cancel" THEN cancelled
        ELSE IF p = "web"
        THEN IF pick.kind = "unreadable" THEN failed ELSE parsed
        ELSE IF ~pick.csv THEN failed
        ELSE IF pick.kind = "unreadable" THEN failed
        ELSE IF Trim(pick.content) = <<>> THEN failed
        ELSE parsed

\* a faulty import that dispatches IMPORT_DATA before saveAllData has returned
importDispatchingFirst(state, d, result, saveOk) ==
    IF result.cancelled THEN [mem |-> state, disk |-> d, alert |-> "importCancelled"]
    ELSE IF ~result.success \/ result.data = <<>>
    THEN [mem |-> state, disk |-> d, alert |-> "importFailed"]
    ELSE IF ~saveOk
    THEN [mem |-> IMPORT_DATA(state, result.data[1]), disk |-> d, alert |-> "importFailed"]
    ELSE [mem |-> IMPORT_DATA(state, result.data[1]),
          disk |-> saveAllData(d, result.data[1]),
          alert |-> "imported"]

\* what handleImportCSV does once the file is picked and parsed
importResult(state, d, result, saveOk) ==
    IF result.cancelled THEN [mem |-> state, disk |-> d, alert |-> "importCancelled"]
    ELSE IF ~result.success \/ result.data = <<>>
    THEN [mem |-> state, disk |-> d, alert |-> "importFailed"]
    ELSE IF ~saveOk THEN [mem |-> state, disk |-> d, alert |-> "importFailed"]
    ELSE [mem |-> IMPORT_DATA(state, result.data[1]),
          disk |-> saveAllData(d, result.data[1]),
          alert |-> "imported"]

\* handleImportCSV, where result is what selectAndParseCSV returns when it is
\* called: on the web the file is picked and parsed, then confirmed; elsewhere
\* the confirmation comes first.  saveOk: saveAllData does not throw.
handleImportCSV(p, state, d, result, confirm, saveOk) ==
    LET declined == [mem |-> state, disk |-> d, alert |-> "importDeclined"]
    IN  IF p = "web"
        THEN IF result.cancelled \/ ~result.success \/ result.data = <<>>
             THEN importResult(state, d, result, saveOk)
             ELSE IF ~confirm THEN declined
             ELSE importResult(state, d, result, saveOk)
        ELSE IF ~confirm THEN declined
             ELSE importResult(state, d, result, saveOk)

ImportOutcomes == {"imported", "importFailed", "importCancelled", "importDeclined"}

ImportFrom(picks) ==
    /\ mem.appState.hasCompletedSetup
    /\ rpc = "idle"
    /\ imports < MaxImports
    /\ imports' = imports + 1
    /\ \E pick \in picks, v \in VersionStrings :
          \E result \in {selectAndParseCSV(platform, pick, now, v)} :
             \E confirm \in BOOLEAN, saveOk \in BOOLEAN :
                \E r \in {handleImportCSV(platform, mem, disk, result, confirm, saveOk)} :
                   /\ mem' = r.mem
                   /\ disk' = r.disk
                   /\ outcome' = r.alert
    /\ UNCHANGED <<platform, now, rpc, rcap, codecVars>>

\* the user imports a file: any of the picks
ImportCSV == ImportFrom(AllPicks(mem))

\* the user imports a file: only what this app exported
ImportOwnCSV == ImportFrom(OwnPicks(mem))

----------------------------------------------------------------------------
(* The specifications.                                                     *)

\* the application without the import
Next ==
    \/ Tick
    \/ Relaunch
    \/ CompleteSetup
    \/ UpdateDefaultAmount
    \/ UpdateCurrentAmount
    \/ AddBill
    \/ TogglePaid
    \/ DeleteBill
    \/ AddSavings
    \/ DeleteSavings
    \/ CheckAndReset
    \/ ResetSaveIncome
    \/ ResetSaveBills
    \/ ResetSaveAppState

Spec == Init /\ [][Next]_vars

\* what happens around an import: setup, entries, month changes, resets, restarts
ImportNext ==
    \/ Tick
    \/ Relaunch
    \/ CompleteSetup
    \/ AddBill
    \/ AddSavings
    \/ CheckAndReset
    \/ ResetSaveIncome
    \/ ResetSaveBills
    \/ ResetSaveAppState
    \/ ImportCSV

ImportSpec == Init /\ [][ImportNext]_vars

\* the same, importing only files this application exported
OwnImportNext ==
    \/ Tick
    \/ Relaunch
    \/ CompleteSetup
    \/ AddBill
    \/ AddSavings
    \/ CheckAndReset
    \/ ResetSaveIncome
    \/ ResetSaveBills
    \/ ResetSaveAppState
    \/ ImportOwnCSV

OwnImportSpec == Init /\ [][OwnImportNext]_vars

(* The codec on its own: generateCSV, then parseCSV, of one valid AppData. *)

CodecNames == {<<"R", "e", "n", "t">>, <<"-", "G", "a", "s">>, <<"D", "a", "t", "a", " ", "E", "x", "p", "o", "r", "t">>}

CodecAmounts == {0, 250, 500}

CodecHistories ==
    { <<>>,
      << [month |-> getCurrentMonth(FirstMonth - 1), total |-> 300] >>,
      << [month |-> getCurrentMonth(FirstMonth - 2), total |-> 0],
         [month |-> getCurrentMonth(FirstMonth - 1), total |-> 300] >> }

\* valid AppData: the two paychecks, at most one bill and one savings account
CodecInputs ==
    { [income |-> << [id |-> 1, name |-> <<"P", "a", "y", "c", "h", "e", "c", "k", " ", "1">>, defaultAmount |-> d,
                      currentAmount |-> c, paycheckNumber |-> 1],
                     [id |-> 2, name |-> <<"P", "a", "y", "c", "h", "e", "c", "k", " ", "2">>, defaultAmount |-> 500,
                      currentAmount |-> 500, paycheckNumber |-> 2] >>,
       bills |-> b,
       savings |-> s,
       appState |-> [lastSessionMonth |-> getCurrentMonth(FirstMonth),
                     versionString |-> "v0.01682.c",
                     hasCompletedSetup |-> TRUE,
                     savingsHistory |-> h]] :
        d \in CodecAmounts, c \in CodecAmounts,
        b \in {<<>>} \cup { << [id |-> 1, name |-> n, amount |-> 250, paid |-> p] >> :
                               n \in CodecNames, p \in BOOLEAN },
        s \in {<<>>} \cup { << [id |-> 1, name |-> n, amount |-> a] >> :
                               n \in CodecNames, a \in {0, 300} },
        h \in CodecHistories }

CodecInit ==
    /\ platform = "native"
    /\ now = FirstMonth
    /\ mem = createInitialState(FirstMonth, "v0.01682.c")
    /\ disk = EmptyDisk
    /\ rpc = "idle"
    /\ rcap = NoCapture
    /\ outcome = "none"
    /\ imports = 0
    /\ cpc = "input"
    /\ cx \in CodecInputs
    /\ ctext = <<>>
    /\ cout = <<>>

CodecGenerate ==
    /\ cpc = "input"
    /\ ctext' = generateCSV(cx)
    /\ cpc' = "generated"
    /\ UNCHANGED <<appVars, cx, cout>>

CodecParse ==
    /\ cpc = "generated"
    /\ \E v \in VersionStrings : cout' = parseCSV(ctext, now, v)
    /\ cpc' = "parsed"
    /\ UNCHANGED <<appVars, cx, ctext>>

CodecNext == CodecGenerate \/ CodecParse

CodecSpec == CodecInit /\ [][CodecNext]_vars

----------------------------------------------------------------------------
(* The properties.                                                         *)

hist(state) == state.appState.savingsHistory

\* the step in which checkAndReset dispatches PERFORM_MONTHLY_RESET
RolloverStep == rpc = "idle" /\ rpc' = "saveIncome"

\* the entry a rollover of the current state appends
RolloverEntry ==
    [month |-> mem.appState.lastSessionMonth, total |-> SumAmount(mem.savings)]

\* C1: when checkAndReset fires the rollover (lastSessionMonth differs from the
\* wall-clock month), every income is at its default, every bill is unpaid and
\* lastSessionMonth is the wall-clock month in the resulting state.
C1_RolloverResets ==
    [][RolloverStep =>
          /\ mem.appState.lastSessionMonth # getCurrentMonth(now)
          /\ Len(mem'.income) = Len(mem.income)
          /\ \A i \in 1..Len(mem'.income) :
                /\ mem'.income[i].currentAmount = mem'.income[i].defaultAmount
                /\ mem'.income[i].defaultAmount = mem.income[i].defaultAmount
          /\ Len(mem'.bills) = Len(mem.bills)
          /\ \A i \in 1..Len(mem'.bills) : ~mem'.bills[i].paid
          /\ mem'.appState.lastSessionMonth = getCurrentMonth(now)]_vars

\* a rollover has just fired on an income away from its default and a paid bill
C1_Witness ==
    /\ rpc = "saveIncome"
    /\ \E i \in 1..Len(rcap.income) :
          rcap.income[i].currentAmount # rcap.income[i].defaultAmount
    /\ \E i \in 1..Len(rcap.bills) : rcap.bills[i].paid
    /\ \A i \in 1..Len(mem.income) : mem.income[i].currentAmount = mem.income[i].defaultAmount
    /\ \A i \in 1..Len(mem.bills) : ~mem.bills[i].paid
    /\ mem.appState.lastSessionMonth = getCurrentMonth(now)

\* C2: a rollover appends exactly one history entry, tagged with the outgoing
\* lastSessionMonth (not the new month) and holding the sum of the savings at
\* that moment: the new history is (a tail of) the old one followed by that entry.
C2_RolloverAppendsSnapshot ==
    [][RolloverStep =>
          LET h  == hist(mem)
              h2 == hist(mem')
          IN  /\ h2 # <<>>
              /\ h2[Len(h2)] = RolloverEntry
              /\ h2[Len(h2)].month # mem'.appState.lastSessionMonth
              /\ \E k \in 0..Len(h) : SubSeq(h2, 1, Len(h2) - 1) = SubSeq(h, k + 1, Len(h))
              /\ Len(h) < HistoryCap => Len(h2) = Len(h) + 1]_vars

\* a rollover has just fired with savings entered: the last entry is their sum
\* under the outgoing month
C2_Witness ==
    /\ rpc = "saveIncome"
    /\ mem.savings # <<>>
    /\ hist(mem) # <<>>
    /\ hist(mem)[Len(hist(mem))] =
          [month |-> rcap.appState.lastSessionMonth, total |-> SumAmount(mem.savings)]
    /\ SumAmount(mem.savings) > 0
    /\ rcap.appState.lastSessionMonth # rcap.currentMonth

ResetOutcomes == {"reset", "resetDone", "resetFailed", "noReset"}

\* C3: a checkAndReset that follows a checkAndReset (while its writes run or
\* after them) with no month change in between changes nothing: no second
\* entry, bills stay unpaid, income stays at defaults.
C3_SecondCheckChangesNothing ==
    [][(outcome \in ResetOutcomes /\ CheckAndReset) =>
          /\ mem' = mem
          /\ disk' = disk
          /\ rpc' = rpc
          /\ rcap' = rcap
          /\ outcome' = "noReset"]_vars

\* a second checkAndReset has returned while the first one's writes are pending
C3_Witness ==
    /\ outcome = "noReset"
    /\ rpc = "saveIncome"
    /\ hist(mem) # <<>>
    /\ mem.appState.lastSessionMonth = getCurrentMonth(now)

\* C4: the persisted aggregate never shows some of a rollover's effects without
\* the others: once the reset incomes are stored (the rollover changed them),
\* the new lastSessionMonth is stored as well.
C4_AtomicPersistence ==
    (/\ rpc \in {"saveBills", "saveAppState"}
     /\ \E i \in 1..Len(rcap.income) :
           rcap.income[i].currentAmount # rcap.income[i].defaultAmount)
    => /\ disk.appState # <<>>
       /\ disk.appState[1].lastSessionMonth = rcap.currentMonth

\* C5: once performReset has completed, loadAllData returns exactly the
\* in-memory aggregate, the appended history entry included.
C5_LoadReturnsPostRollover ==
    outcome = "resetDone" => loadAllData(platform, disk) = <<mem>>

\* C6: savingsHistory never holds more than 12 entries.
C6_HistoryCapped == Len(hist(mem)) <= HistoryCap

\* the entries ADD_SAVINGS_HISTORY_ENTRY is tried with
ProbeEntries ==
    { [month |-> getCurrentMonth(t), total |-> 300] : t \in {FirstMonth - 1, FirstMonth} }

\* h2 is h with e appended under the cap of 12
AppendedUnderCap(h, h2, e) ==
    /\ Len(h) = HistoryCap => h2 = SubSeq(h, 2, HistoryCap) \o <<e>>
    /\ Len(h) < HistoryCap => h2 = h \o <<e>>

\* C7: appending to a 12-entry history, by rollover or ADD_SAVINGS_HISTORY_ENTRY,
\* yields the former entries 2..12 in order followed by the new entry; with
\* fewer than 12 entries the new entry goes at the end and nothing is dropped.
C7_AppendEvictsOldest ==
    [][/\ RolloverStep => AppendedUnderCap(hist(mem), hist(mem'), RolloverEntry)
       /\ \A e \in ProbeEntries :
             AppendedUnderCap(hist(mem), hist(ADD_SAVINGS_HISTORY_ENTRY(mem, e)), e)]_vars

\* a rollover has just fired on a history of 12 entries
C7_Witness ==
    /\ rpc = "saveIncome"
    /\ Len(hist(rcap)) = HistoryCap
    /\ Len(hist(mem)) = HistoryCap
    /\ hist(mem)[1] = hist(rcap)[2]
    /\ hist(mem)[HistoryCap].month = rcap.appState.lastSessionMonth

\* C8: no two entries of savingsHistory have the same month.
C8_NoDuplicateMonths ==
    \A i, j \in 1..Len(hist(mem)) : i # j => hist(mem)[i].month # hist(mem)[j].month

\* the records of a list without their ids
WithoutIds(list) ==
    [i \in 1..Len(list) |-> [f \in (DOMAIN list[i]) \ {"id"} |-> list[i][f]]]

\* C9: parseCSV(generateCSV(x)) succeeds and yields the same income, bill and
\* savings records and the same history entries, in order, ids apart.
C9_RoundTrip ==
    cpc = "parsed" =>
       /\ cout # <<>>
       /\ WithoutIds(cout[1].income) = WithoutIds(cx.income)
       /\ WithoutIds(cout[1].bills) = WithoutIds(cx.bills)
       /\ WithoutIds(cout[1].savings) = WithoutIds(cx.savings)
       /\ hist(cout[1]) = hist(cx)

\* the step in which handleImportCSV runs
ImportStep == imports' = imports + 1

\* a complete AppData as parseCSV builds it
CompleteAppData(data) ==
    /\ DOMAIN data = {"income", "bills", "savings", "appState"}
    /\ data.income # <<>>
    /\ data.appState.hasCompletedSetup
    /\ IsMonth(data.appState.lastSessionMonth)

\* C10: an import that ends in a failure, a declined confirmation or a
\* cancellation leaves the in-memory and the persisted aggregate as they were;
\* the in-memory aggregate is replaced only by a completely parsed AppData
\* (which is then also what is persisted).
C10_ImportAllOrNothing ==
    [][ImportStep =>
          /\ outcome' \in ImportOutcomes
          /\ outcome' # "imported" => (mem' = mem /\ disk' = disk)
          /\ outcome' = "imported" =>
                /\ CompleteAppData(mem')
                /\ disk' = saveAllData(disk, mem')]_vars

\* an import has failed on an aggregate that holds the user's entries
C10_Witness ==
    /\ outcome = "importFailed"
    /\ imports = 1
    /\ mem.bills # <<>>
    /\ mem.savings # <<>>
    /\ disk.bills = <<mem.bills>>

----------------------------------------------------------------------------
(* parseCSV on its own: one text written by hand, then parseCSV.           *)

\* the sections a hand-written file may hold, as lines; <<>> when absent
IncomeParts ==
    { <<>>,
      << <<"=", "=", "=", " ", "I", "N", "C", "O", "M", "E", " ", "=", "=", "=">>, <<"N", "a", "m", "e", ",", "D", "e", "f", "a", "u", "l", "t", " ", "A", "m", "o", "u", "n", "t", ",", "C", "u", "r", "r", "e", "n", "t", " ", "A", "m", "o", "u", "n", "t", ",", "P", "a", "y", "c", "h", "e", "c", "k", " ", "N", "u", "m", "b", "e", "r">> >>,
      << <<"=", "=", "=", " ", "I", "N", "C", "O", "M", "E", " ", "=", "=", "=">>, <<"N", "a", "m", "e", ",", "D", "e", "f", "a", "u", "l", "t", " ", "A", "m", "o", "u", "n", "t", ",", "C", "u", "r", "r", "e", "n", "t", " ", "A", "m", "o", "u", "n", "t", ",", "P", "a", "y", "c", "h", "e", "c", "k", " ", "N", "u", "m", "b", "e", "r">>,
         <<"P", "a", "y", "c", "h", "e", "c", "k", " ", "1", ",", "5", "0", "0", ",", "5", "0", "0", ",", "1">>, <<"P", "a", "y", "c", "h", "e", "c", "k", " ", "2", ",", "2", "5", "0", ",", "2", "5", "0", ",", "2">> >>,
      << <<"=", "=", "=", " ", "I", "N", "C", "O", "M", "E", " ", "=", "=", "=">>, <<"N", "a", "m", "e", ",", "D", "e", "f", "a", "u", "l", "t", " ", "A", "m", "o", "u", "n", "t", ",", "C", "u", "r", "r", "e", "n", "t", " ", "A", "m", "o", "u", "n", "t", ",", "P", "a", "y", "c", "h", "e", "c", "k", " ", "N", "u", "m", "b", "e", "r">>,
         <<"S", "i", "d", "e", " ", "j", "o", "b", ",", "1", "0", "0", ",", "1", "0", "0", ",">> >>,
      << <<"=", "=", "=", " ", "I", "N", "C", "O", "M", "E", " ", "=", "=", "=">>, <<"N", "a", "m", "e", ",", "D", "e", "f", "a", "u", "l", "t", " ", "A", "m", "o", "u", "n", "t", ",", "C", "u", "r", "r", "e", "n", "t", " ", "A", "m", "o", "u", "n", "t", ",", "P", "a", "y", "c", "h", "e", "c", "k", " ", "N", "u", "m", "b", "e", "r">>,
         <<"D", "a", "y", " ", "j", "o", "b", ",", "5", "0", "0", ",", "5", "0", "0", ",", "1">>, <<"N", "i", "g", "h", "t", " ", "j", "o", "b", ",", "2", "5", "0", ",", "2", "5", "0", ",", "1">> >> }

BillsParts ==
    { <<>>, << <<"=", "=", "=", " ", "B", "I", "L", "L", "S", " ", "=", "=", "=">>, <<"N", "a", "m", "e", ",", "A", "m", "o", "u", "n", "t", ",", "P", "a", "i", "d">>, <<"R", "e", "n", "t", ",", "2", "5", "0", ",", "Y", "e", "s">> >> }

SavingsParts ==
    { <<>>, << <<"=", "=", "=", " ", "S", "A", "V", "I", "N", "G", "S", " ", "=", "=", "=">>, <<"N", "a", "m", "e", ",", "A", "m", "o", "u", "n", "t">>, <<"F", "u", "n", "d", ",", "3", "0", "0">> >> }

HistoryParts ==
    { <<>>,
      << <<"=", "=", "=", " ", "S", "A", "V", "I", "N", "G", "S", " ", "H", "I", "S", "T", "O", "R", "Y", " ", "=", "=", "=">>, <<"M", "o", "n", "t", "h", ",", "T", "o", "t", "a", "l">> >>,
      << <<"=", "=", "=", " ", "S", "A", "V", "I", "N", "G", "S", " ", "H", "I", "S", "T", "O", "R", "Y", " ", "=", "=", "=">>, <<"M", "o", "n", "t", "h", ",", "T", "o", "t", "a", "l">>, <<"2", "0", "2", "4", "-", "1", "0", ",", "3", "0", "0">> >>,
      << <<"=", "=", "=", " ", "S", "A", "V", "I", "N", "G", "S", " ", "H", "I", "S", "T", "O", "R", "Y", " ", "=", "=", "=">>, <<"M", "o", "n", "t", "h", ",", "T", "o", "t", "a", "l">>, <<"2", "0", "2", "4", "-", "1", "0", ",", "3", "0", "0">>, <<"2", "0", "2", "4", "-", "0", "9", ",", "1", "0", "0">> >>,
      << <<"=", "=", "=", " ", "S", "A", "V", "I", "N", "G", "S", " ", "H", "I", "S", "T", "O", "R", "Y", " ", "=", "=", "=">>, <<"M", "o", "n", "t", "h", ",", "T", "o", "t", "a", "l">>, <<"2", "0", "2", "4", "-", "9", ",", "5">>, <<"N", "o", "v", " ", "2", "0", "2", "4", ",", "7">> >>,
      << <<"=", "=", "=", " ", "S", "A", "V", "I", "N", "G", "S", " ", "H", "I", "S", "T", "O", "R", "Y", " ", "=", "=", "=">>, <<"M", "o", "n", "t", "h", ",", "T", "o", "t", "a", "l">>, <<"2", "0", "2", "3", "-", "1", "2", ",", "1", "0", "0">>, <<"9", "9", "9", "9", "-", "1", ",", "5">>,
         <<"2", "0", "2", "4", "-", "0", "2", ",", "3", "0", "0">> >> }

LineEnds == { <<"\n">>, <<"\r", "\n">> }

\* the hand-written files: which sections, and the line ending
TextInputs ==
    { [income |-> i, bills |-> b, savings |-> s, history |-> h, eol |-> e] :
        i \in IncomeParts, b \in BillsParts, s \in SavingsParts, h \in HistoryParts,
        e \in LineEnds }

\* the content of the file
TextOf(x) == Join(x.income \o x.bills \o x.savings \o x.history, x.eol)

TextInit ==
    /\ platform = "native"
    /\ now \in FirstMonth..(FirstMonth + 1)
    /\ mem = createInitialState(FirstMonth, "v0.01682.c")
    /\ disk = EmptyDisk
    /\ rpc = "idle"
    /\ rcap = NoCapture
    /\ outcome = "none"
    /\ imports = 0
    /\ cpc = "text"
    /\ cx \in TextInputs
    /\ ctext = TextOf(cx)
    /\ cout = <<>>

TextParse ==
    /\ cpc = "text"
    /\ \E v \in VersionStrings : cout' = parseCSV(ctext, now, v)
    /\ cpc' = "textParsed"
    /\ UNCHANGED <<appVars, cx, ctext>>

TextNext == TextParse

TextSpec == TextInit /\ [][TextNext]_vars

(* One cell on its own: sanitizeCSVValue of a string, then parseCSVLine.   *)

CellChars == {"=", "+", "-", "@", Quote, "'", ",", "a"}

\* the strings of 1..MaxCell characters
CellInputs == UNION { [1..n -> CellChars] : n \in 1..MaxCell }

CellInit ==
    /\ platform = "native"
    /\ now = FirstMonth
    /\ mem = createInitialState(FirstMonth, "v0.01682.c")
    /\ disk = EmptyDisk
    /\ rpc = "idle"
    /\ rcap = NoCapture
    /\ outcome = "none"
    /\ imports = 0
    /\ cpc = "cell"
    /\ cx \in CellInputs
    /\ ctext = <<>>
    /\ cout = <<>>

\* generateCSV writes the cell
CellSanitize ==
    /\ cpc = "cell"
    /\ ctext' = sanitizeCSVValue(cx)
    /\ cpc' = "cellWritten"
    /\ UNCHANGED <<appVars, cx, cout>>

\* parseCSV reads the line that holds the cell
CellParse ==
    /\ cpc = "cellWritten"
    /\ cout' = parseCSVLine(ctext)
    /\ cpc' = "cellParsed"
    /\ UNCHANGED <<appVars, cx, ctext>>

CellNext == CellSanitize \/ CellParse

CellSpec == CellInit /\ [][CellNext]_vars

----------------------------------------------------------------------------
(* Additional income: useIncome.addIncome, IncomeModal.handleDeleteIncome. *)

ADD_INCOME(state, newIncome) == [state EXCEPT !.income = Append(@, newIncome)]

DELETE_INCOME(state, id) ==
    [state EXCEPT !.income = SelectSeq(@, LAMBDA inc : inc.id # id)]

\* IncomeModal.handleAddIncome: a name and an amount above zero
AddIncome ==
    \E name \in {<<"S", "i", "d", "e", " ", "j", "o", "b">>}, amount \in IncomeAmounts :
       LET newIncome == [id |-> FreshId({mem.income, StoreOf(disk.income)}), name |-> name,
                         defaultAmount |-> amount, currentAmount |-> amount,
                         paycheckNumber |-> NoPaycheck]
       IN  /\ Len(mem.income) < MaxIncome
           /\ amount > 0
           /\ mem' = ADD_INCOME(mem, newIncome)
           /\ Write(saveIncome(disk, Append(mem.income, newIncome)))
           /\ UserStep

\* a faulty handler that asks for confirmation without looking at paycheckNumber
deleteUnguarded(state, d, item, confirm) ==
    IF ~confirm THEN [mem |-> state, disk |-> d, alert |-> "none"]
    ELSE [mem |-> DELETE_INCOME(state, item.id),
          disk |-> saveIncome(d, SelectSeq(state.income, LAMBDA inc : inc.id # item.id)),
          alert |-> "none"]

\* IncomeModal.handleDeleteIncome(item), with the user's answer to the
\* confirmation, and useIncome.deleteIncome(item.id) behind it
handleDeleteIncome(state, d, item, confirm) ==
    IF item.paycheckNumber # NoPaycheck
    THEN [mem |-> state, disk |-> d, alert |-> "cannotDelete"]
    ELSE IF ~confirm THEN [mem |-> state, disk |-> d, alert |-> "none"]
    ELSE [mem |-> DELETE_INCOME(state, item.id),
          disk |-> saveIncome(d, SelectSeq(state.income, LAMBDA inc : inc.id # item.id)),
          alert |-> "none"]

\* the user asks to delete the i-th income record
DeleteIncomeRequest(i, confirm) ==
    /\ rpc = "idle"
    /\ i \in 1..Len(mem.income)
    /\ \E r \in {handleDeleteIncome(mem, disk, mem.income[i], confirm)} :
          /\ mem' = r.mem
          /\ disk' = r.disk
          /\ outcome' = r.alert
    /\ UNCHANGED <<platform, now, rpc, rcap, imports, codecVars>>

DeleteIncome == \E i \in 1..Len(mem.income), confirm \in BOOLEAN : DeleteIncomeRequest(i, confirm)

\* a file written by hand whose only income row carries no paycheck number
UntaggedIncomeFile ==
    Join(<< <<"=", "=", "=", " ", "I", "N", "C", "O", "M", "E", " ", "=", "=", "=">>, <<"N", "a", "m", "e", ",", "D", "e", "f", "a", "u", "l", "t", " ", "A", "m", "o", "u", "n", "t", ",", "C", "u", "r", "r", "e", "n", "t", " ", "A", "m", "o", "u", "n", "t", ",", "P", "a", "y", "c", "h", "e", "c", "k", " ", "N", "u", "m", "b", "e", "r">>,
            <<"S", "i", "d", "e", " ", "j", "o", "b", ",", "1", "0", "0", ",", "1", "0", "0", ",">> >>, <<"\n">>)

IncomePicks(state) ==
    { Cancelled, File(TRUE, generateCSV(state)), File(TRUE, UntaggedIncomeFile) }

ImportIncomeCSV == ImportFrom(IncomePicks(mem))

\* the income list through edits, additions, deletions, resets and imports
IncomeNext ==
    \/ Tick
    \/ Relaunch
    \/ CompleteSetup
    \/ UpdateDefaultAmount
    \/ UpdateCurrentAmount
    \/ AddIncome
    \/ DeleteIncome
    \/ CheckAndReset
    \/ ResetSaveIncome
    \/ ResetSaveBills
    \/ ResetSaveAppState
    \/ ImportIncomeCSV

IncomeSpec == Init /\ [][IncomeNext]_vars

----------------------------------------------------------------------------
(* The totals of AppProvider.  A number of the program is a double; the     *)
(* amounts of the model are whole cents that are multiples of 25, which     *)
(* doubles hold exactly (as dollars), as they hold their sums, so that      *)
(* totalPaid / totalDue is the double nearest to the ratio of the cents.    *)
(* A positive double is [bits |-> its 53 significand bits, first the        *)
(* highest, exp |-> e]: the integer the bits spell, times 2^e.              *)

\* the integer a sequence of bits spells (short sequences only)
RECURSIVE BitsValue(_)
BitsValue(b) == IF b = <<>> THEN 0 ELSE 2 * BitsValue(SubSeq(b, 1, Len(b) - 1)) + b[Len(b)]

\* round to nearest, ties to even: the double for the number that the bits b
\* (any length above 53, leading zeros allowed) spell, times 2^e, where sticky
\* tells that the exact number lies above what the bits spell
RoundToDouble(b, e, sticky) ==
    LET first == CHOOSE i \in 1..Len(b) : b[i] = 1 /\ \A j \in 1..(i - 1) : b[j] = 0
        last  == first + 52
        kept  == SubSeq(b, first, last)
        rest  == SubSeq(b, last + 1, Len(b))
        more  == sticky \/ \E i \in 2..Len(rest) : rest[i] = 1
        up    == rest # <<>> /\ rest[1] = 1 /\ (more \/ kept[53] = 1)
        zeros == {i \in 1..53 : kept[i] = 0}
        z     == CHOOSE i \in zeros : \A j \in zeros : j <= i
        exp   == e + Len(rest)
    IN  IF ~up THEN [bits |-> kept, exp |-> exp]
        ELSE IF zeros = {} THEN [bits |-> [i \in 1..53 |-> IF i = 1 THEN 1 ELSE 0],
                                 exp |-> exp + 1]
        ELSE [bits |-> [i \in 1..53 |-> IF i < z THEN kept[i] ELSE IF i = z THEN 1 ELSE 0],
              exp |-> exp]

\* bit i (1 the highest) of a number below 1024
BitOf(v, i) == (v \div (2 ^ (10 - i))) % 2

\* p / d for whole numbers 0 < p <= d: long division, ten binary places at a
\* time, to 10 * DivChunks places, rounded to a double
FloatDivide(p, d) ==
    LET rem[c \in 0..DivChunks] == IF c = 0 THEN p % d ELSE (1024 * rem[c - 1]) % d
        quot == [k \in 1..(10 * DivChunks + 1) |->
                    IF k = 1 THEN p \div d
                    ELSE BitOf((1024 * rem[(k - 2) \div 10]) \div d, ((k - 2) % 10) + 1)]
    IN  RoundToDouble(quot, -(10 * DivChunks), rem[DivChunks] # 0)

\* x * 100 for a double x: the exact product, ten bits at a time from the
\* lowest, rounded to a double
FloatTimes100(x) ==
    LET padded == [i \in 1..60 |-> IF i <= 7 THEN 0 ELSE x.bits[i - 7]]
        limb(j) == BitsValue(SubSeq(padded, 51 - 10 * (j - 1), 60 - 10 * (j - 1)))
        carry[j \in 0..6] == IF j = 0 THEN 0 ELSE (limb(j) * 100 + carry[j - 1]) \div 1024
        out(j) == (limb(j) * 100 + carry[j - 1]) % 1024
        product == [k \in 1..70 |->
                       IF k <= 10 THEN BitOf(carry[6], k)
                       ELSE BitOf(out(6 - (k - 11) \div 10), ((k - 11) % 10) + 1)]
    IN  RoundToDouble(product, x.exp, FALSE)

\* Math.round(x) for a double 0 < x < 2^31: the nearest whole number, halves up
MathRound(x) ==
    LET n     == 53 + x.exp
        whole == IF n <= 0 THEN 0 ELSE BitsValue(SubSeq(x.bits, 1, n))
        half  == IF n < 0 THEN 0 ELSE x.bits[n + 1]
    IN  whole + half

\* AppProvider: incomeSummary.total
incomeTotal(state) ==
    LET sum[i \in 0..Len(state.income)] ==
            IF i = 0 THEN 0 ELSE sum[i - 1] + state.income[i].currentAmount
    IN  sum[Len(state.income)]

\* AppProvider: billsSummary
billsSummary(state) ==
    LET totalDue  == SumAmount(state.bills)
        totalPaid == SumAmount(SelectSeq(state.bills, LAMBDA bill : bill.paid))
    IN  [totalDue |-> totalDue,
         totalPaid |-> totalPaid,
         totalRemaining |-> totalDue - totalPaid,
         progress |-> IF totalDue > 0
                      THEN IF totalPaid = 0 THEN 0
                           ELSE MathRound(FloatTimes100(FloatDivide(totalPaid, totalDue)))
                      ELSE 0]

\* a faulty remainder that subtracts the bills already paid
incomeMinusPaidBills(state) == incomeTotal(state) - billsSummary(state).totalPaid

\* AppProvider: tusUltimosPesos
tusUltimosPesos(state) == incomeTotal(state) - billsSummary(state).totalRemaining

\* whole-dollar bills, among them 23 and 17 dollars, and 1 and 7 dollars
ProgressAmounts == {100, 700, 1700, 2300}

\* the user adds a bill of one of these amounts
AddAnyBill == AddBillFrom(ProgressAmounts, MaxProgressBills)

\* the bills list and the totals shown for it
BillsNext ==
    \/ CompleteSetup
    \/ UpdateCurrentAmount
    \/ AddAnyBill
    \/ TogglePaid
    \/ DeleteBill

BillsSpec == Init /\ [][BillsNext]_vars

(* The setup wizard's income step, and the hooks run one after another.    *)

\* useIncome.resetToDefaults
ResetToDefaults ==
    LET updatedIncome == [j \in 1..Len(mem.income) |->
            [mem.income[j] EXCEPT !.currentAmount = mem.income[j].defaultAmount]]
    IN  /\ mem' = [mem EXCEPT !.income = updatedIncome]
        /\ Write(saveIncome(disk, updatedIncome))
        /\ UserStep

\* what useIncome.updateDefaultAmount(id, amount) writes: the income list of
\* the render its callback was made in, with that one amount changed
defaultAmountWrite(income, id, amount) ==
    [j \in 1..Len(income) |->
        IF income[j].id = id THEN [income[j] EXCEPT !.defaultAmount = amount] ELSE income[j]]

\* the same for useIncome.updateCurrentAmount(id, amount)
currentAmountWrite(income, id, amount) ==
    [j \in 1..Len(income) |->
        IF income[j].id = id THEN [income[j] EXCEPT !.currentAmount = amount] ELSE income[j]]

\* IncomeStep.handleNext: four hook calls awaited one after another.  Each
\* dispatch acts on the reducer's state; each write is made from the income
\* list of the render that handleNext and its callbacks belong to.
IncomeStepNext ==
    \E amount \in IncomeAmounts :
       LET income == mem.income
           id1    == income[1].id
           id2    == income[2].id
       IN  /\ ~mem.appState.hasCompletedSetup
           /\ amount > 0
           /\ Len(income) >= 2
           /\ mem' = UPDATE_INCOME(UPDATE_INCOME_DEFAULT(
                        UPDATE_INCOME(UPDATE_INCOME_DEFAULT(mem, id1, amount), id1, amount),
                        id2, amount), id2, amount)
           /\ Write(saveIncome(saveIncome(saveIncome(saveIncome(disk,
                        defaultAmountWrite(income, id1, amount)),
                        currentAmountWrite(income, id1, amount)),
                        defaultAmountWrite(income, id2, amount)),
                        currentAmountWrite(income, id2, amount)))
           /\ UserStep

\* the operations of the hooks, run one after another, and the wizard
HooksNext ==
    \/ IncomeStepNext
    \/ CompleteSetup
    \/ UpdateDefaultAmount
    \/ UpdateCurrentAmount
    \/ ResetToDefaults
    \/ AddIncome
    \/ DeleteIncome
    \/ AddBill
    \/ TogglePaid
    \/ DeleteBill
    \/ AddSavings
    \/ DeleteSavings

HooksSpec == Init /\ [][HooksNext]_vars

----------------------------------------------------------------------------
(* The properties of the parser, the totals and the hooks.                 *)

\* the data rows of a hand-written section (after its title and column header)
DataRows(part) == IF Len(part) > 2 THEN SubSeq(part, 3, Len(part)) ELSE <<>>

\* C11: parseCSV returns failure exactly when the text holds no income, no bill
\* and no savings record.
C11_FailsOnlyWhenNothingRecovered ==
    cpc = "textParsed" =>
       (cout = <<>> <=> /\ DataRows(cx.income) = <<>>
                        /\ DataRows(cx.bills) = <<>>
                        /\ DataRows(cx.savings) = <<>>)

\* C12: a value that starts with =, +, - or @ is written as a cell that is not
\* the bare value (double quotes around a single-quote marker and the value),
\* and reading that cell gives the value back.
C12_FormulaCellRoundTrip ==
    cpc = "cellParsed" /\ cx[1] \in FormulaChars =>
       /\ ctext # cx
       /\ Len(ctext) >= Len(cx) + 3
       /\ SubSeq(ctext, 1, 2) = <<Quote, "'">>
       /\ ctext[Len(ctext)] = Quote
       /\ cout = <<cx>>

\* the month field of a hand-written history row
RowMonth(row) == Split(row, ",")[1]

\* a YYYY-MM month as a number that orders months as the strings are ordered
MonthKey(m) ==
    DigitVal(m[1]) * 100000 + DigitVal(m[2]) * 10000 + DigitVal(m[3]) * 1000
       + DigitVal(m[4]) * 100 + DigitVal(m[6]) * 10 + DigitVal(m[7])

\* C13: parseCSV succeeds; lastSessionMonth is the greatest month among the
\* history rows it accepted (those whose month reads YYYY-MM), and the
\* wall-clock month when it accepted none; without a SAVINGS HISTORY section
\* savingsHistory is empty and lastSessionMonth is the wall-clock month.
C13_LastSessionMonthIsGreatest ==
    cpc = "textParsed" =>
       /\ cout # <<>>
       /\ LET rows     == DataRows(cx.history)
              accepted == {i \in 1..Len(rows) : IsMonth(RowMonth(rows[i]))}
              lsm      == cout[1].appState.lastSessionMonth
          IN  /\ Len(hist(cout[1])) = Cardinality(accepted)
              /\ \A i \in 1..Len(hist(cout[1])) : IsMonth(hist(cout[1])[i].month)
              /\ accepted = {} => lsm = getCurrentMonth(now)
              /\ accepted # {} =>
                    /\ \E i \in accepted : lsm = RowMonth(rows[i])
                    /\ \A i \in accepted : MonthKey(RowMonth(rows[i])) <= MonthKey(lsm)
              /\ cx.history = <<>> =>
                    hist(cout[1]) = <<>> /\ lsm = getCurrentMonth(now)

\* a file was parsed whose most recent history row is not its last one
C13_Witness ==
    /\ cpc = "textParsed"
    /\ cout # <<>>
    /\ Len(hist(cout[1])) = 2
    /\ cout[1].appState.lastSessionMonth = hist(cout[1])[1].month
    /\ MonthKey(hist(cout[1])[2].month) < MonthKey(hist(cout[1])[1].month)

\* the positions of the income records that carry paycheckNumber n
Tagged(income, n) == {i \in 1..Len(income) : income[i].paycheckNumber = n}

\* C14: after first-run initialization the income list always holds exactly
\* one record with paycheckNumber 1 and exactly one with paycheckNumber 2.
C14_TwoPaychecks ==
    /\ Cardinality(Tagged(mem.income, 1)) = 1
    /\ Cardinality(Tagged(mem.income, 2)) = 1

\* the list without its i-th record
Without(list, i) == SubSeq(list, 1, i - 1) \o SubSeq(list, i + 1, Len(list))

\* C15: a delete request for an income record with paycheckNumber 1 or 2
\* changes nothing in memory or in storage; a confirmed request for an untagged
\* record removes exactly that record from the list, in memory and in storage,
\* and touches nothing else.
C15_PaychecksNotDeletable ==
    [][\A i \in 1..Len(mem.income), confirm \in BOOLEAN :
          DeleteIncomeRequest(i, confirm) =>
             IF mem.income[i].paycheckNumber \in {1, 2} \/ ~confirm
             THEN mem' = mem /\ disk' = disk
             ELSE /\ mem' = [mem EXCEPT !.income = Without(mem.income, i)]
                  /\ disk' = [disk EXCEPT !.income = <<Without(mem.income, i)>>]]_vars

\* the user was refused the deletion of a paycheck while an additional income
\* record was in the list
C15_Witness ==
    /\ outcome = "cannotDelete"
    /\ Len(mem.income) = 3
    /\ Tagged(mem.income, 1) # {}
    /\ Tagged(mem.income, 2) # {}

\* the state of a first run at wall-clock month t: dated t, both paychecks at
\* zero, no history, no reset due
FreshLaunch(state, t) ==
    /\ state.appState.lastSessionMonth = getCurrentMonth(t)
    /\ Len(state.income) = 2
    /\ \A i \in 1..2 : /\ state.income[i].paycheckNumber = i
                      /\ state.income[i].defaultAmount = 0
                      /\ state.income[i].currentAmount = 0
    /\ hist(state) = <<>>
    /\ ~checkNeedsMonthlyReset(state, t)

\* C16: when loadAllData returns nothing, the app starts in a state dated the
\* wall-clock month with both paychecks at zero and no history; the check of
\* that launch finds no reset due, fires no rollover and appends no entry.
C16_FirstRunNoRollover ==
    /\ FreshLaunch(mem, now)
    /\ [][(Relaunch /\ loadAllData(platform, disk) = <<>>) => FreshLaunch(mem', now')]_vars
    /\ [][(/\ CheckAndReset
           /\ loadAllData(platform, disk) = <<>>
           /\ hist(mem) = <<>>
           /\ mem.appState.lastSessionMonth = getCurrentMonth(now))
          => /\ ~RolloverStep
             /\ outcome' = "noReset"
             /\ mem' = mem
             /\ disk' = disk]_vars

\* a first run in a later month than the first one has made its check
C16_Witness ==
    /\ loadAllData(platform, disk) = <<>>
    /\ now > FirstMonth
    /\ outcome = "noReset"
    /\ mem.appState.hasCompletedSetup
    /\ mem.appState.lastSessionMonth = getCurrentMonth(now)
    /\ hist(mem) = <<>>

\* a record without the fields named in drop
Except(rec, drop) == [f \in (DOMAIN rec) \ drop |-> rec[f]]

\* C17: a rollover leaves every savings record, every income id, name,
\* defaultAmount and paycheckNumber, every bill id, name and amount,
\* hasCompletedSetup and versionString as they were, keeps the number and the
\* order of the records, and writes nothing itself; the writes that follow it
\* leave memory and the stored savings alone.
C17_RolloverFrame ==
    /\ [][RolloverStep =>
             /\ mem'.savings = mem.savings
             /\ Len(mem'.income) = Len(mem.income)
             /\ \A i \in 1..Len(mem.income) :
                   Except(mem'.income[i], {"currentAmount"})
                      = Except(mem.income[i], {"currentAmount"})
             /\ Len(mem'.bills) = Len(mem.bills)
             /\ \A i \in 1..Len(mem.bills) :
                   Except(mem'.bills[i], {"paid"}) = Except(mem.bills[i], {"paid"})
             /\ Except(mem'.appState, {"lastSessionMonth", "savingsHistory"})
                   = Except(mem.appState, {"lastSessionMonth", "savingsHistory"})
             /\ DOMAIN mem' = DOMAIN mem
             /\ disk' = disk]_vars
    /\ [][(ResetSaveIncome \/ ResetSaveBills \/ ResetSaveAppState) =>
             mem' = mem /\ disk'.savings = disk.savings]_vars

\* a rollover has just fired on a state with a savings account, a paid bill
\* and an income with a default amount
C17_Witness ==
    /\ rpc = "saveIncome"
    /\ mem.savings # <<>>
    /\ rcap.bills # <<>> /\ rcap.bills[1].paid
    /\ \E i \in 1..Len(mem.income) : mem.income[i].defaultAmount > 0
    /\ rcap.income # mem.income

\* the sum of the amounts of the unpaid bills, bill by bill
RECURSIVE UnpaidAmount(_)
UnpaidAmount(bills) ==
    IF bills = <<>> THEN 0
    ELSE (IF bills[1].paid THEN 0 ELSE bills[1].amount) + UnpaidAmount(Tail(bills))

\* the sum of the current amounts, record by record
RECURSIVE CurrentAmounts(_)
CurrentAmounts(income) ==
    IF income = <<>> THEN 0 ELSE income[1].currentAmount + CurrentAmounts(Tail(income))

C19_ProgressRounded ==
    LET s == billsSummary(mem)
    IN  /\ s.progress \in 0..100
        /\ s.totalDue = 0 => s.progress = 0
        /\ s.totalDue > 0 =>
              s.progress = (200 * s.totalPaid + s.totalDue) \div (2 * s.totalDue)

\* C20: once an operation on a section has completed, the stored section is
\* the section in memory, as after a saveAllData of the new state.
C20_ScopedSaveIsSaveAll ==
    /\ disk.income # <<>> => disk.income = saveAllData(disk, mem).income
    /\ disk.bills # <<>> => disk.bills = saveAllData(disk, mem).bills
    /\ disk.savings # <<>> => disk.savings = saveAllData(disk, mem).savings


----------------------------------------------------------------------------
(* The storage adapters on their own: every method, with the key-value     *)
(* store underneath working or failing.                                    *)

\* what happens underneath a method: the request is served, the store rejects
\* it, JSON.parse throws on what is stored (AsyncStorage), or there is no
\* database handle and ensureDB throws (IndexedDB)
Faults == {"none", "rejects", "corrupt", "noDB"}

ReadOps == {"loadAllData", "getIncome", "getBills", "getSavings", "getAppState"}

SaveOps == {"saveAllData", "saveIncome", "saveBills", "saveSavings", "saveAppState"}

FaultsOf(p, op) ==
    {"none", "rejects"} \cup (IF p = "web" THEN {"noDB"}
                             ELSE IF op \in ReadOps THEN {"corrupt"} ELSE {})

\* the Error a method lets escape
Threw == "threw"

\* a faulty read that lets the error escape
readRethrowing(fault, value, fallback) == IF fault = "none" THEN value ELSE Threw

\* try { return <read> } catch (error) { console.error(...); return <fallback> }
tryRead(fault, value, fallback) == IF fault = "none" THEN value ELSE fallback

\* try { <write> } catch (error) { console.error(...); throw new Error(...) }
\* a request that fails stores nothing
trySave(fault, d, written) ==
    IF fault = "none" THEN [disk |-> written, result |-> "done"]
    ELSE [disk |-> d, result |-> Threw]

\* json ? JSON.parse(json) : []   /   db.getAll(store)
getList(p, cell) ==
    IF p = "web" THEN StoreOf(cell) ELSE IF cell = <<>> THEN <<>> ELSE cell[1]

getIncome(p, d) == getList(p, d.income)

getBills(p, d) == getList(p, d.bills)

getSavings(p, d) == getList(p, d.savings)

\* a read method of the adapter of platform p; null and [] are both <<>>
adapterRead(op, p, d, fault) ==
    CASE op = "loadAllData" -> tryRead(fault, loadAllData(p, d), <<>>)
      [] op = "getIncome" -> tryRead(fault, getIncome(p, d), <<>>)
      [] op = "getBills" -> tryRead(fault, getBills(p, d), <<>>)
      [] op = "getSavings" -> tryRead(fault, getSavings(p, d), <<>>)
      [] op = "getAppState" -> tryRead(fault, getAppState(p, d), <<>>)

\* a save method of the adapter, handed the aggregate x or its section
adapterSave(op, d, x, fault) ==
    CASE op = "saveAllData" -> trySave(fault, d, saveAllData(d, x))
      [] op = "saveIncome" -> trySave(fault, d, saveIncome(d, x.income))
      [] op = "saveBills" -> trySave(fault, d, saveBills(d, x.bills))
      [] op = "saveSavings" -> trySave(fault, d, saveSavings(d, x.savings))
      [] op = "saveAppState" -> trySave(fault, d, saveAppState(d, x.appState))

GatewayBills ==
    { <<>>,
      << [id |-> 1, name |-> <<"R", "e", "n", "t">>, amount |-> 250, paid |-> FALSE] >>,
      << [id |-> 2, name |-> <<"G", "a", "s">>, amount |-> 250, paid |-> TRUE],
         [id |-> 1, name |-> <<"R", "e", "n", "t">>, amount |-> 250, paid |-> FALSE] >> }

GatewayHistories ==
    { <<>>, << [month |-> getCurrentMonth(FirstMonth - 1), total |-> 300] >> }

\* the aggregates handed to the save methods: the two paychecks and more
GatewayData ==
    { [createInitialState(FirstMonth, "v0.01682.c") EXCEPT
          !.bills = b, !.appState.savingsHistory = h, !.appState.hasCompletedSetup = TRUE] :
        b \in GatewayBills, h \in GatewayHistories }

\* cx: <<x>> while the stores hold what one saveAllData(x) wrote, else <<>>
\* cout: the last call and what its caller got
GatewayInit ==
    /\ platform \in {"native", "web"}
    /\ now = FirstMonth
    /\ mem = createInitialState(FirstMonth, "v0.01682.c")
    /\ disk = EmptyDisk
    /\ rpc = "idle"
    /\ rcap = NoCapture
    /\ outcome = "none"
    /\ imports = 0
    /\ cpc = "adapter"
    /\ cx = <<>>
    /\ ctext = <<>>
    /\ cout = <<>>

GatewayRead ==
    \E op \in ReadOps : \E fault \in FaultsOf(platform, op) :
        /\ cpc = "adapter"
        /\ cout' = [op |-> op, fault |-> fault, result |-> adapterRead(op, platform, disk, fault)]
        /\ UNCHANGED <<appVars, cpc, cx, ctext>>

GatewaySave ==
    \E op \in SaveOps, x \in GatewayData : \E fault \in FaultsOf(platform, op) :
        \E r \in {adapterSave(op, disk, x, fault)} :
            /\ cpc = "adapter"
            /\ disk' = r.disk
            /\ cout' = [op |-> op, fault |-> fault, result |-> r.result]
            /\ cx' = IF r.result = Threw THEN cx
                     ELSE IF op = "saveAllData" THEN <<x>> ELSE <<>>
            /\ UNCHANGED <<platform, now, mem, rpc, rcap, outcome, imports, cpc, ctext>>

GatewayNext == GatewayRead \/ GatewaySave

GatewaySpec == GatewayInit /\ [][GatewayNext]_vars

----------------------------------------------------------------------------
(* storage/index.ts: getStorage, getStorageSync, isStorageInitialized,     *)
(* called by several asynchronous callers over one adapter singleton.      *)

Callers == 1..MaxCallers

\* what a caller was handed: `adapter` is TRUE when it got the adapter (or, from
\* isStorageInitialized, the answer true); `initialized` is the adapter's own
\* flag at that moment
NoAnswer == [call |-> "none", adapter |-> FALSE, initialized |-> FALSE]

Answer(call, adapter, module) ==
    [call |-> call, adapter |-> adapter, initialized |-> adapter /\ module.initialized]

\* cx: the module's storageInstance (set or null) and the adapter's fields;
\* cpc: where each caller's getStorage() stands; cout: each caller's last answer
StorageInit ==
    /\ platform \in {"native", "web"}
    /\ now = FirstMonth
    /\ mem = createInitialState(FirstMonth, "v0.01682.c")
    /\ disk = EmptyDisk
    /\ rpc = "idle"
    /\ rcap = NoCapture
    /\ outcome = "none"
    /\ imports = 0
    /\ cpc = [c \in Callers |-> "idle"]
    /\ cx = [storageInstance |-> FALSE, initialized |-> FALSE, db |-> FALSE]
    /\ ctext = <<>>
    /\ cout = [c \in Callers |-> NoAnswer]

\* getStorage() up to its first await: the early return, or the dynamic import
GetStorage(c) ==
    /\ cpc[c] = "idle"
    /\ IF cx.storageInstance
       THEN /\ cout' = [cout EXCEPT ![c] = Answer("getStorage", TRUE, cx)]
            /\ UNCHANGED cpc
       ELSE /\ cpc' = [cpc EXCEPT ![c] = "importing"]
            /\ cout' = [cout EXCEPT ![c] = NoAnswer]
    /\ UNCHANGED <<appVars, cx, ctext>>

\* the import resolves: storageInstance is assigned, then initialize() runs up
\* to its own await (openDB, or the probing getItem)
Imported(c) ==
    /\ cpc[c] = "importing"
    /\ cx' = [cx EXCEPT !.storageInstance = TRUE]
    /\ cpc' = [cpc EXCEPT ![c] =
                  IF cx.initialized /\ (platform = "web" => cx.db) THEN "initialized"
                  ELSE "opening"]
    /\ UNCHANGED <<appVars, ctext, cout>>

\* openDB / getItem settles: initialize() sets its flag, or throws
Opened(c) ==
    \E ok \in BOOLEAN :
        /\ cpc[c] = "opening"
        /\ cx' = IF ok THEN [cx EXCEPT !.initialized = TRUE, !.db = (platform = "web")]
                 ELSE cx
        /\ cpc' = [cpc EXCEPT ![c] = IF ok THEN "initialized" ELSE "idle"]
        /\ cout' = [cout EXCEPT ![c] =
                       IF ok THEN @ ELSE [call |-> "getStorage rejected", adapter |-> FALSE,
                                          initialized |-> FALSE]]
        /\ UNCHANGED <<appVars, ctext>>

\* await storageInstance.initialize() resumes: return storageInstance
Returned(c) ==
    /\ cpc[c] = "initialized"
    /\ cpc' = [cpc EXCEPT ![c] = "idle"]
    /\ cout' = [cout EXCEPT ![c] = Answer("getStorage", TRUE, cx)]
    /\ UNCHANGED <<appVars, cx, ctext>>

\* getStorageSync(): the instance, or a throw when there is none
GetStorageSync(c) ==
    /\ cpc[c] = "idle"
    /\ cout' = [cout EXCEPT ![c] = Answer("getStorageSync", cx.storageInstance, cx)]
    /\ UNCHANGED <<appVars, cpc, cx, ctext>>

\* isStorageInitialized(): storageInstance !== null
IsStorageInitialized(c) ==
    /\ cpc[c] = "idle"
    /\ cout' = [cout EXCEPT ![c] = Answer("isStorageInitialized", cx.storageInstance, cx)]
    /\ UNCHANGED <<appVars, cpc, cx, ctext>>

StorageNext ==
    \E c \in Callers :
        \/ GetStorage(c)
        \/ Imported(c)
        \/ Opened(c)
        \/ Returned(c)
        \/ GetStorageSync(c)
        \/ IsStorageInitialized(c)

StorageSpec == StorageInit /\ [][StorageNext]_vars

----------------------------------------------------------------------------
(* Claims about the storage adapters.                                      *)

\* C21: a storage failure during a read method is reported as absent or empty
\* data (null or the empty list) and never as a thrown error; a storage
\* failure during a save method reaches the caller as an error.
C21_ReadsDefaultSavesThrow ==
    cout # <<>> =>
        /\ cout.op \in ReadOps => cout.result # Threw
        /\ cout.op \in ReadOps /\ cout.fault # "none" => cout.result = <<>>
        /\ cout.op \in SaveOps /\ cout.fault # "none" => cout.result = Threw
        /\ cout.op \in SaveOps /\ cout.fault = "none" => cout.result = "done"

\* a read over stored data fails and reports nothing, and a save fails and throws
C21_Witness ==
    /\ cout # <<>>
    /\ cout.fault # "none"
    /\ \/ cout.op = "loadAllData" /\ loadAllData(platform, disk) # <<>> /\ cout.result = <<>>
       \/ cout.op = "saveBills" /\ cout.result = Threw

\* C27: on both adapters loadAllData after a successful saveAllData(x), x
\* holding the two paychecks, returns x: income, bills, savings and every
\* appState field, savingsHistory included.
C27_SaveAllLoadAll ==
    (cout # <<>> /\ cx # <<>>) =>
        (cout.op = "loadAllData" /\ cout.fault = "none" => cout.result = cx)

\* C29: whatever interleaving of concurrent getStorage() calls, and also after
\* an initialization that failed, every adapter handed out by getStorage() or
\* getStorageSync(), and every true answer of isStorageInitialized(), comes
\* with an adapter whose initialize() has completed without error.
C29_OnlyInitializedAdapters ==
    \A c \in DOMAIN cout : cout[c].adapter => cout[c].initialized

----------------------------------------------------------------------------
(* Manual entry: the Bills modal's add form and inline edits, next to the  *)
(* import.                                                                 *)

\* what the user types into a name field and into an amount field
TypedNames == {<<"R", "e", "n", "t">>, <<" ", "r", "e", "n", "t", " ">>, <<"G", "a", "s">>, <<>>, <<" ">>}

TypedAmounts == {<<"2", ".", "5", "0">>, <<"0">>, <<"-", "5">>, <<"a", "b", "c">>, <<"$", "7">>}

\* parseCurrency(value), in cents: value.replace(/[^0-9.-]/g, ''), parseFloat, NaN -> 0
parseCurrency(value) ==
    LET cleaned == SelectSeq(value, LAMBDA c : IsDigit(c) \/ c \in {".", "-"})
        parsed  == ParseFloat(cleaned)
    IN  IF parsed.nan THEN 0 ELSE parsed.v

\* { ...bill, ...updates }, updates being { name } or { amount }
WithUpdate(bill, field, value) ==
    IF field = "name" THEN [bill EXCEPT !.name = value] ELSE [bill EXCEPT !.amount = value]

UPDATE_BILL(state, id, field, value) ==
    [state EXCEPT !.bills = [i \in 1..Len(@) |->
        IF @[i].id = id THEN WithUpdate(@[i], field, value) ELSE @[i]]]

\* useBills.addBill
addBill(state, d, name, amount) ==
    LET newBill == [id |-> FreshId({state.bills, StoreOf(d.bills)}), name |-> name,
                    amount |-> amount, paid |-> FALSE]
    IN  [mem |-> ADD_BILL(state, newBill),
         disk |-> saveBills(d, Append(state.bills, newBill)),
         alert |-> "none"]

\* useBills.updateBill
updateBill(state, d, id, field, value) ==
    LET updatedBills == [i \in 1..Len(state.bills) |->
            IF state.bills[i].id = id THEN WithUpdate(state.bills[i], field, value)
            ELSE state.bills[i]]
    IN  [mem |-> UPDATE_BILL(state, id, field, value),
         disk |-> saveBills(d, updatedBills),
         alert |-> "none"]

\* BillsModal.handleAddBill
handleAddBill(state, d, newBillName, newBillAmount) ==
    LET name   == Trim(newBillName)
        amount == parseCurrency(newBillAmount)
    IN  IF name = <<>> THEN [mem |-> state, disk |-> d, alert |-> "enterName"]
        ELSE IF amount <= 0 THEN [mem |-> state, disk |-> d, alert |-> "enterAmount"]
        ELSE addBill(state, d, name, amount)

\* BillsModal.saveEditing
saveEditing(state, d, id, field, value) ==
    LET unchanged == [mem |-> state, disk |-> d, alert |-> "none"]
        trimmed   == Trim(value)
        amount    == parseCurrency(value)
    IN  IF field = "name"
        THEN IF trimmed # <<>> THEN updateBill(state, d, id, "name", trimmed) ELSE unchanged
        ELSE IF amount > 0 THEN updateBill(state, d, id, "amount", amount) ELSE unchanged

\* a handler of the modal ran to its end
ModalStep(r) ==
    /\ mem.appState.hasCompletedSetup
    /\ rpc = "idle"
    /\ mem' = r.mem
    /\ disk' = r.disk
    /\ outcome' = r.alert
    /\ UNCHANGED <<platform, now, rpc, rcap, imports, codecVars>>

ModalAddBill ==
    \E newBillName \in TypedNames, newBillAmount \in TypedAmounts :
        /\ Len(mem.bills) < MaxEntries
        /\ \E r \in {handleAddBill(mem, disk, newBillName, newBillAmount)} : ModalStep(r)

ModalEditBill ==
    \E i \in 1..Len(mem.bills), field \in {"name", "amount"} :
        \E value \in IF field = "name" THEN TypedNames ELSE TypedAmounts :
            \E r \in {saveEditing(mem, disk, mem.bills[i].id, field, value)} : ModalStep(r)

\* a file written by hand: a bill of amount 0
ZeroBillFile ==
    Join(<< <<"=", "=", "=", " ", "B", "I", "L", "L", "S", " ", "=", "=", "=">>, <<"N", "a", "m", "e", ",", "A", "m", "o", "u", "n", "t", ",", "P", "a", "i", "d">>, <<"R", "e", "n", "t", ",", "0", ",", "N", "o">> >>, <<"\n">>)

EntryPicks(state) == { Cancelled, File(TRUE, generateCSV(state)), File(TRUE, ZeroBillFile) }

ImportEntryCSV == ImportFrom(EntryPicks(mem))

EntryNext ==
    \/ CompleteSetup
    \/ ModalAddBill
    \/ ModalEditBill
    \/ TogglePaid
    \/ DeleteBill
    \/ ImportEntryCSV

EntrySpec == Init /\ [][EntryNext]_vars

----------------------------------------------------------------------------
(* Claims about validation at the points of entry.                         *)

ValidName(name) == Len(name) >= 1 /\ Len(name) <= MAX_NAME_LENGTH

\* toLowerCase().trim()
NormalizedName(name) == Trim(ToLowerCase(name))

NamesDistinct(list) ==
    \A i, j \in 1..Len(list) :
        i # j => NormalizedName(list[i].name) # NormalizedName(list[j].name)

\* C22: no record that fails validation enters the aggregate, whether by manual
\* entry, inline edit or CSV import: every bill has amount > 0, every savings
\* account amount >= 0, every income defaultAmount >= 0 and currentAmount >= 0,
\* and every name has 1 to 32 characters.
C22_OnlyValidRecords ==
    /\ \A i \in 1..Len(mem.bills) : mem.bills[i].amount > 0 /\ ValidName(mem.bills[i].name)
    /\ \A i \in 1..Len(mem.savings) : mem.savings[i].amount >= 0 /\ ValidName(mem.savings[i].name)
    /\ \A i \in 1..Len(mem.income) :
          /\ mem.income[i].defaultAmount >= 0
          /\ mem.income[i].currentAmount >= 0
          /\ ValidName(mem.income[i].name)

\* C23: no two records of one type have names that are equal after trimming
\* and lower-casing (an add or rename that would make two such names is
\* rejected).
C23_NamesUniquePerType ==
    /\ NamesDistinct(mem.income)
    /\ NamesDistinct(mem.bills)
    /\ NamesDistinct(mem.savings)

----------------------------------------------------------------------------
(* The zod schemas of utils/validators.ts, applied to one bill input.      *)

\* a character of the class [a-zA-Z0-9\s-]
InNamePattern(c) ==
    \/ \E i \in 1..26 : UpperCase[i] = c \/ LowerCase[i] = c
    \/ IsDigit(c)
    \/ IsSpace(c)
    \/ c = "-"

\* NAME_PATTERN.test(val): /^[a-zA-Z0-9\s-]+$/
NAME_PATTERN(val) == val # <<>> /\ \A i \in 1..Len(val) : InNamePattern(val[i])

\* a faulty schema that trims before it checks
nameTrimmedFirst(val) ==
    LET t == Trim(val)
    IN  IF Len(t) >= 1 /\ Len(t) <= MAX_NAME_LENGTH /\ NAME_PATTERN(t)
        THEN [success |-> TRUE, value |-> t]
        ELSE [success |-> FALSE, value |-> <<>>]

\* nameSchema: z.string().min(1).max(MAX_NAME_LENGTH).regex(NAME_PATTERN)
\* .transform(val => val.trim()): the checks see val as given, the transform
\* runs when they pass
nameSchema(val) ==
    IF Len(val) >= 1 /\ Len(val) <= MAX_NAME_LENGTH /\ NAME_PATTERN(val)
    THEN [success |-> TRUE, value |-> Trim(val)]
    ELSE [success |-> FALSE, value |-> <<>>]

\* amountSchema, on cents: positive, a multiple of 0.01 (every whole number of
\* cents is), at most 999999999.99
amountSchema(amount) ==
    IF amount > 0 /\ amount \div 100 <= 999999999
    THEN [success |-> TRUE, value |-> amount]
    ELSE [success |-> FALSE, value |-> 0]

\* safeValidateBillInput(data): billInputSchema.safeParse; issues holds the
\* paths of the fields that failed
safeValidateBillInput(data) ==
    LET name   == nameSchema(data.name)
        amount == amountSchema(data.amount)
    IN  [success |-> name.success /\ amount.success,
         data    |-> [name |-> name.value, amount |-> amount.value],
         issues  |-> (IF name.success THEN {} ELSE {"name"})
                     \cup (IF amount.success THEN {} ELSE {"amount"})]

RECURSIVE Repeat(_, _)
Repeat(c, n) == IF n = 0 THEN <<>> ELSE <<c>> \o Repeat(c, n - 1)

NameChars == {"a", " ", "-", "!"}

ShortNames == UNION { [1..n -> NameChars] : n \in 0..MaxTyped }

\* names around the limit of 32 characters, bare and padded with a space
LongNames ==
    UNION { { Repeat("a", n), <<" ">> \o Repeat("a", n), Repeat("a", n) \o <<" ">> } :
            n \in (MAX_NAME_LENGTH - 1)..(MAX_NAME_LENGTH + 1) }

ValidateInputs == [name : ShortNames \cup LongNames, amount : {-100, 0, 250}]

\* cx: the input; cout: what safeValidateBillInput returned for it
ValidateInit ==
    /\ platform = "native"
    /\ now = FirstMonth
    /\ mem = createInitialState(FirstMonth, "v0.01682.c")
    /\ disk = EmptyDisk
    /\ rpc = "idle"
    /\ rcap = NoCapture
    /\ outcome = "none"
    /\ imports = 0
    /\ cpc = "input"
    /\ cx \in ValidateInputs
    /\ ctext = <<>>
    /\ cout = <<>>

Validate ==
    /\ cpc = "input"
    /\ cout' = safeValidateBillInput(cx)
    /\ cpc' = "validated"
    /\ UNCHANGED <<appVars, cx, ctext>>

ValidateNext == Validate

ValidateSpec == ValidateInit /\ [][ValidateNext]_vars

\* C24: name validation trims first: a name is accepted exactly when, after
\* trimming, it has 1 to 32 characters, all of them letters, digits, spaces or
\* hyphens, and the validated record carries the trimmed name; any other name
\* is rejected with an error on the name field.
C24_NameTrimmedThenChecked ==
    cpc = "validated" =>
        LET trimmed  == Trim(cx.name)
            wanted   == Len(trimmed) >= 1 /\ Len(trimmed) <= MAX_NAME_LENGTH
                        /\ NAME_PATTERN(trimmed)
            accepted == "name" \notin cout.issues
        IN  /\ accepted <=> wanted
            /\ accepted => cout.data.name = trimmed

----------------------------------------------------------------------------
(* The first run: the setup wizard's steps, and the launches after it.     *)

FirstRunNext ==
    \/ IncomeStepNext
    \/ AddBill
    \/ DeleteBill
    \/ AddSavings
    \/ DeleteSavings
    \/ CompleteSetup
    \/ Relaunch

FirstRunSpec == Init /\ [][FirstRunNext]_vars

----------------------------------------------------------------------------
(* useBills with its writes in flight: a callback dispatches at once and    *)
(* writes, after its awaits, the list it built from the state.bills of the  *)
(* render that created it.                                                  *)

\* cx: state.bills of the last committed render; ctext: the lists handed to
\* saveBills and not yet stored, oldest first
OverlapInit ==
    /\ platform \in {"native", "web"}
    /\ now = FirstMonth
    /\ mem = createInitialState(FirstMonth, "v0.01682.c")
    /\ disk = EmptyDisk
    /\ rpc = "idle"
    /\ rcap = NoCapture
    /\ outcome = "none"
    /\ imports = 0
    /\ cpc = "rendered"
    /\ cx = <<>>
    /\ ctext = <<>>
    /\ cout = <<>>

\* a callback is called on a fresh render, or while an earlier write is in flight
CallbackStarts ==
    /\ cx = mem.bills \/ ctext # <<>>
    /\ Len(ctext) < MaxPending
    /\ UNCHANGED <<platform, now, disk, rpc, rcap, outcome, imports, cpc, cx, cout>>

\* useBills.addBill up to its first await
OverlapAddBill ==
    \E name \in {<<"R", "e", "n", "t">>, <<"G", "a", "s">>}, amount \in BillAmounts :
        LET newBill == [id |-> FreshId({mem.bills}), name |-> name,
                        amount |-> amount, paid |-> FALSE]
        IN  /\ Len(mem.bills) < MaxEntries
            /\ mem' = ADD_BILL(mem, newBill)
            /\ ctext' = Append(ctext, Append(cx, newBill))
            /\ CallbackStarts

\* useBills.togglePaid, of a bill the render shows, up to its first await
OverlapTogglePaid ==
    \E i \in 1..Len(cx) :
        LET id == cx[i].id
            updatedBills == [j \in 1..Len(cx) |->
                IF cx[j].id = id THEN [cx[j] EXCEPT !.paid = ~@] ELSE cx[j]]
        IN  /\ mem' = TOGGLE_BILL_PAID(mem, id)
            /\ ctext' = Append(ctext, updatedBills)
            /\ CallbackStarts

\* React commits a render of the reducer's state: the callbacks are rebuilt
Rerender ==
    /\ cx # mem.bills
    /\ cx' = mem.bills
    /\ UNCHANGED <<appVars, cpc, ctext, cout>>

\* await storage.saveBills(...) of the oldest call completes
WriteLands ==
    /\ ctext # <<>>
    /\ disk' = saveBills(disk, Head(ctext))
    /\ ctext' = Tail(ctext)
    /\ UNCHANGED <<platform, now, mem, rpc, rcap, outcome, imports, cpc, cx, cout>>

OverlapNext == OverlapAddBill \/ OverlapTogglePaid \/ Rerender \/ WriteLands

OverlapSpec == OverlapInit /\ [][OverlapNext]_vars

----------------------------------------------------------------------------
(* Claims about restarts and overlapping operations.                       *)

\* C26: data entered on first run survives a restart: once the wizard has been
\* completed with paycheck amounts, a bill and a savings account entered, what
\* the next launch's loadAllData returns is present, holds the entered records
\* and has hasCompletedSetup = TRUE.
C26_FirstRunSurvivesRestart ==
    ( /\ mem.appState.hasCompletedSetup
      /\ \A i \in 1..Len(mem.income) : mem.income[i].defaultAmount > 0
      /\ mem.bills # <<>>
      /\ mem.savings # <<>> )
    => LET data == loadAllData(platform, disk)
       IN  /\ data # <<>>
           /\ data[1].appState.hasCompletedSetup
           /\ data[1].bills = mem.bills
           /\ data[1].savings = mem.savings

\* C25: no lost update under overlapping persistence: when two mutations of
\* the bills are started from the same rendered state before the first one's
\* write has finished, then once both writes have completed the persisted
\* bills contain the effect of both and equal the bills in memory.
C25_NoLostUpdate ==
    (ctext = <<>> /\ disk.bills # <<>>) => disk.bills = <<mem.bills>>

\* the aggregate the next launch would start from
NextLaunch(v) ==
    LET data == loadAllData(platform, disk)
    IN  IF data = <<>> THEN createInitialState(now, v) ELSE data[1]

\* C28: during a rollover the new lastSessionMonth is stored only after the
\* reset incomes and the unpaid bills: while performReset has not completed
\* (it may be interrupted, or its next write may fail) the persisted
\* lastSessionMonth is still a month before the incoming one, and a launch at
\* that point finds the rollover due again.
C28_InterruptedRolloverDueAgain ==
    rpc # "idle" =>
        /\ disk.appState # <<>>
        /\ disk.appState[1].lastSessionMonth # rcap.currentMonth
        /\ \A v \in VersionStrings : checkNeedsMonthlyReset(NextLaunch(v), now)

\* C30: export followed by import preserves the session month: for a valid
\* AppData x, parseCSV(generateCSV(x)).appState.lastSessionMonth is
\* x.appState.lastSessionMonth, so importing one's own export in the same
\* wall-clock month does not make a rollover due.
C30_SessionMonthPreserved ==
    cpc = "parsed" =>
        /\ cout # <<>>
        /\ cout[1].appState.lastSessionMonth = cx.appState.lastSessionMonth
        /\ ~checkNeedsMonthlyReset(cout[1], now)
====
